---- MODULE Spec2Model ----
(***************************************************************************)
(* Verification model of the bridge relayer (mx-bridge-eth-go).            *)
(*                                                                         *)
(* The module holds one state machine per component of the relayer:       *)
(*   - the topology handler (leader rotation)             SpecTopology    *)
(*   - the bridge executor operations                     SpecExecutor    *)
(*   - the p2p broadcaster and its signature holder       SpecGossip,     *)
(*                                                        SpecGossipLive  *)
(*   - the half-bridge step machines                      SpecBridge,     *)
(*                                                        SpecBridgeLive  *)
(*   - the v1 Monitor state machine                       SpecMonitor     *)
(* Each specification moves only the variables of its own component and   *)
(* keeps the others at their idle value.                                  *)
(***************************************************************************)
EXTENDS Integers, Sequences, FiniteSets, TLC

VARIABLES
    \* ---- topology handler
    tKeys,      \* the list PublicKeysProvider.SortedPublicKeys() returns
    tNow,       \* Timer.NowUnix()
    tEval,      \* per relayer: result of its MyTurnAsLeader() call at this instant
    \* ---- bridge executor
    ex,         \* the bridgeExecutor struct fields
    exChain,    \* what the two chain clients answer from
    exRes,      \* the result of the last executor operation
    \* ---- broadcasters
    bc,         \* per broadcaster: its counter, holders and nonce tracker
    net,        \* packets the messengers have in flight
    gRes,       \* what ProcessReceivedMessage returned, when the step taken was a delivery
    gFailures,  \* sends to a peer that failed so far
    gClears,    \* ClearSignatures calls so far
    gAccepted,  \* history: the packets accepted so far
    gLastSign,  \* history: per broadcaster and sender, the last accepted sign message
    gMissed,    \* history: sign messages broadcast while a broadcaster was not registered
    gMade,      \* history: per broadcaster, the messages it created, by topic
    gWatch,     \* whether deliveries are recorded in gRes, gAccepted and gLastSign
    gBatch,     \* the batch that is pending and the batch each relayer works on
    \* ---- monitors (relay/monitor.go)
    mon,        \* per monitor: the Start loop, the state channel, the step in flight, the fields
    mChain,     \* the two bridges as the monitors see them
    mLeader,    \* the relayer whose AmITheLeader answers true
    mCtx,       \* whether the context is cancelled
    mCalls,     \* history: the Execute calls issued, per bridge and action id
    mBudget,    \* what the environment may still do: rotations, failures
    mRes,       \* the bridge call the step just taken issued, and what held when it did
    \* ---- one relayer's half-bridge (state machine of spec section 4.2)
    br,         \* the current step, the executor, the statuses resolved, the fetches made
    bChain,     \* the two chains: the pending batch, the transfer and set-status actions
    bEnv,       \* the direction, the quorum, who leads, the budget of faults and rotations
    bRes,       \* the step just executed: where it went and what the quorum query answered
    \* ---- the bridge components (factory/ethElrondBridgeComponents.go)
    cp,         \* Start, the join loop's goroutine and Close, and the joins broadcast
    \* ---- the relayers of the slow tests on an invalid bridge setup
    su          \* the batch, the receiver's balance, each relayer's step, the errors logged

topoVars == <<tKeys, tNow, tEval>>
execVars == <<ex, exChain, exRes>>
gossipVars == <<bc, net, gRes, gFailures, gClears, gAccepted, gLastSign, gMissed, gMade, gWatch, gBatch>>
monVars == <<mon, mChain, mLeader, mCtx, mCalls, mBudget, mRes>>
bridgeVars == <<br, bChain, bEnv, bRes>>
compVars == <<cp>>
setupVars == <<su>>
vars == <<topoVars, execVars, gossipVars, monVars, bridgeVars, compVars, setupVars>>

\* what the actions of one component leave alone
topoRest == <<execVars, gossipVars, monVars, bridgeVars, compVars, setupVars>>
execRest == <<topoVars, gossipVars, monVars, bridgeVars, compVars, setupVars>>
gossipRest == <<topoVars, execVars, monVars, bridgeVars, compVars, setupVars>>
monRest == <<topoVars, execVars, gossipVars, bridgeVars, compVars, setupVars>>
bridgeRest == <<topoVars, execVars, gossipVars, monVars, compVars, setupVars>>
compRest == <<topoVars, execVars, gossipVars, monVars, bridgeVars, setupVars>>
setupRest == <<topoVars, execVars, gossipVars, monVars, bridgeVars, compVars>>

(***************************************************************************)
(* Bounds of the model.                                                    *)
(***************************************************************************)
NumRelayers == 3        \* whitelisted relayers
MaxNow == 6             \* the clock stops here
MaxDeposits == 3        \* deposits in a batch
MaxNonce == 4           \* deposit nonces and last-executed nonces are 0..MaxNonce
MaxBatchID == 2         \* batch identifiers are 1..MaxBatchID
NumBroadcasters == 2    \* relayers that run a broadcaster
MaxCounter == 2         \* messages a broadcaster creates
MaxBroadcasts == 4      \* messages created over all broadcasters, all of them up from the start
MaxBroadcastsLate == 3  \* the same, in the runs where broadcasters start late
MaxBroadcastsAttacked == 2 \* the same, in the runs where an outsider injects packets
MaxSendFailures == 1    \* failed SendToConnectedPeer calls
MaxClears == 1          \* ClearSignatures calls
MaxBroadcastsCleared == 3 \* messages created over all broadcasters, in the runs with ClearSignatures
NumMonitors == 2        \* relayers that run a Monitor
MaxOthers == 1          \* relayers that sign from elsewhere
MaxPeers == 3           \* peers a relayer may know of
MaxRotations == 1       \* changes of leader
MaxBridgeFailures == 1  \* bridge calls that return an error
MaxExecuteCalls == 3    \* Execute calls per bridge and action id
NumPeers == 1           \* the relayers beside the one whose half-bridge runs
MaxFetches == 2         \* fetches of the pending batch that are counted
MaxRetries == 1         \* the clients' maximum number of retries on quorum reached
NumClosables == 2       \* closable handlers of the bridge components
MaxJoins == 4           \* BroadcastJoinTopic calls that are counted
MaxErrorsCounted == 2   \* errors per relayer and batch that are counted
MaxNumberOfRetries == 2 \* the largest maximum of retries a client is configured with

Relayers == 1..NumRelayers

Nil == "nil"            \* no value
NoErr == "nil"          \* a nil error
NilBatch == [isNil |-> TRUE]    \* a nil *clients.TransferBatch

(***************************************************************************)
(* Byte strings. A public key is a sequence of bytes; keys are compared   *)
(* lexicographically (bytes.Compare) and for equality (bytes.Equal).      *)
(***************************************************************************)
PublicKeyBytes(r) == <<(r * 5) % 7, r % 3>>

RECURSIVE BytesCompare(_, _)
BytesCompare(a, b) ==
    IF Len(a) = 0 /\ Len(b) = 0 THEN 0
    ELSE IF Len(a) = 0 THEN -1
    ELSE IF Len(b) = 0 THEN 1
    ELSE IF Head(a) < Head(b) THEN -1
    ELSE IF Head(a) > Head(b) THEN 1
    ELSE BytesCompare(Tail(a), Tail(b))

BytesEqual(a, b) == BytesCompare(a, b) = 0

\* the smallest byte string of a non-empty set
MinBytes(S) == CHOOSE k \in S : \A o \in S : BytesCompare(k, o) <= 0

\* sort.Slice(keys, bytes.Compare(keys[i], keys[j]) < 0) over a set of keys
RECURSIVE SortBytes(_)
SortBytes(S) ==
    IF S = {} THEN <<>>
    ELSE LET m == MinBytes(S) IN <<m>> \o SortBytes(S \ {m})

IsSortedBytes(s) ==
    \A i \in 1..Len(s) : \A j \in 1..Len(s) : i < j => BytesCompare(s[i], s[j]) < 0

(***************************************************************************)
(* Topology handler: MyTurnAsLeader.                                       *)
(***************************************************************************)
IntervalForLeaderSeconds == 2

\* the deterministic hash of the 64-bit seed shared by all relayers
hashSeed(seed) == (seed * seed * 3 + seed * 5 + 1) % 251

\* hashRandomSelector.randomInt: hash(seed) mod max
randomInt(seed, max) == hashSeed(seed) % max

\* a comparison slip: ">= 0" where the code tests equality
MyTurnAsLeaderCompare(sortedPublicKeys, nowUnix, addressBytes) ==
    IF Len(sortedPublicKeys) = 0 THEN FALSE
    ELSE LET numberOfPeers == Len(sortedPublicKeys)
             seed == nowUnix \div IntervalForLeaderSeconds
             index == randomInt(seed, numberOfPeers)
         IN BytesCompare(sortedPublicKeys[index + 1], addressBytes) >= 0

\* a selection slip: the first key of the list whatever the time window
MyTurnAsLeaderFirst(sortedPublicKeys, nowUnix, addressBytes) ==
    IF Len(sortedPublicKeys) = 0 THEN FALSE
    ELSE BytesEqual(sortedPublicKeys[1], addressBytes)

MyTurnAsLeader(sortedPublicKeys, nowUnix, addressBytes) ==
    IF Len(sortedPublicKeys) = 0 THEN FALSE
    ELSE LET numberOfPeers == Len(sortedPublicKeys)
             seed == nowUnix \div IntervalForLeaderSeconds
             index == randomInt(seed, numberOfPeers)
         IN BytesEqual(sortedPublicKeys[index + 1], addressBytes)

ListKeys(s) == {s[i] : i \in 1..Len(s)}

TopoInit ==
    /\ tKeys = <<>>
    /\ tNow = 0
    /\ tEval = [r \in Relayers |-> "none"]

\* the provider's list gains the key of a whitelisted relayer that joined
ProviderJoin(r) ==
    /\ PublicKeyBytes(r) \notin ListKeys(tKeys)
    /\ tKeys' = SortBytes(ListKeys(tKeys) \cup {PublicKeyBytes(r)})
    /\ tEval' = [q \in Relayers |-> "none"]
    /\ UNCHANGED <<tNow, topoRest>>

\* the clock advances by one second
TimerTick ==
    /\ tNow < MaxNow
    /\ tNow' = tNow + 1
    /\ tEval' = [q \in Relayers |-> "none"]
    /\ UNCHANGED <<tKeys, topoRest>>

\* relayer r calls MyTurnAsLeader()
EvalLeader(r) ==
    /\ tEval[r] = "none"
    /\ tEval' = [tEval EXCEPT ![r] =
                    IF MyTurnAsLeader(tKeys, tNow, PublicKeyBytes(r)) THEN "leader" ELSE "not"]
    /\ UNCHANGED <<tKeys, tNow, topoRest>>

TopoNext ==
    \/ \E r \in Relayers : ProviderJoin(r)
    \/ TimerTick
    \/ \E r \in Relayers : EvalLeader(r)

(***************************************************************************)
(* Bridge executor (ethToElrond/v2/bridge/bridgeExecutor.go).              *)
(* An operation is an operator from the executor's fields and the answer  *)
(* of the chain client to the new fields, the returned error and value,   *)
(* and the client calls it made.                                          *)
(***************************************************************************)
ErrNilBatch == "ErrNilBatch"
ErrInvalidDepositNonce == "ErrInvalidDepositNonce"
ErrRPC == "rpc error"
InvalidActionID == 0

DepositsOfLen(n) == [1..n -> [Nonce : 0..MaxNonce]]
AllDeposits == UNION {DepositsOfLen(n) : n \in 0..MaxDeposits}
Batches == [ID : 1..MaxBatchID, Deposits : AllDeposits]

\* createBridgeExecutor: batch nil, the numeric fields zero
NewExecutor ==
    [batch |-> NilBatch, actionID |-> 0, msgHash |-> 0,
     retriesOnElrond |-> 0, retriesOnEthereum |-> 0]

\* a client answer: the value returned and the error
Answer(val, err) == [val |-> val, err |-> err]
Result(e, err, val, calls) == [executor |-> e, err |-> err, val |-> val, calls |-> calls]

\* the batch the executor holds is returned, the client is not asked
GetBatchFromElrondStored(e, answer) == Result(e, NoErr, e.batch, <<>>)

\* GetBatchFromElrond: the client's answer, passed on
GetBatchFromElrond(e, answer) ==
    Result(e, answer.err, IF answer.err = NoErr THEN answer.val ELSE NilBatch, <<"GetPending">>)

\* the batch is stored without the nil check
StoreBatchFromElrondUnchecked(e, batch) == Result([e EXCEPT !.batch = batch], NoErr, Nil, <<>>)

StoreBatchFromElrond(e, batch) ==
    IF batch = NilBatch
    THEN Result(e, ErrNilBatch, Nil, <<>>)
    ELSE Result([e EXCEPT !.batch = batch], NoErr, Nil, <<>>)

GetStoredBatch(e) == e.batch

GetAndStoreBatchFromEthereum(e, answer) ==
    IF answer.err # NoErr
    THEN Result(e, answer.err, Nil, <<"GetBatch">>)
    ELSE Result([e EXCEPT !.batch = answer.val], NoErr, Nil, <<"GetBatch">>)

\* the loop of verifyDepositNonces from deposit i on, startNonce being expected
RECURSIVE verifyLoop(_, _, _)
verifyLoop(deposits, i, startNonce) ==
    IF i > Len(deposits) THEN [err |-> NoErr, deposit |-> 0, expected |-> 0]
    ELSE IF deposits[i].Nonce # startNonce
         THEN [err |-> ErrInvalidDepositNonce, deposit |-> i, expected |-> startNonce]
         ELSE verifyLoop(deposits, i + 1, startNonce + 1)

\* the loop without "startNonce++"
RECURSIVE verifyLoopNoIncrement(_, _, _)
verifyLoopNoIncrement(deposits, i, startNonce) ==
    IF i > Len(deposits) THEN [err |-> NoErr, deposit |-> 0, expected |-> 0]
    ELSE IF deposits[i].Nonce # startNonce
         THEN [err |-> ErrInvalidDepositNonce, deposit |-> i, expected |-> startNonce]
         ELSE verifyLoopNoIncrement(deposits, i + 1, startNonce)

verifyDepositNoncesNoIncrement(batch, lastNonce) ==
    verifyLoopNoIncrement(batch.Deposits, 1, lastNonce + 1)

\* only the first deposit is compared with the expected nonce
verifyDepositNoncesFirstOnly(batch, lastNonce) ==
    IF batch.Deposits # <<>> /\ batch.Deposits[1].Nonce # lastNonce + 1
    THEN [err |-> ErrInvalidDepositNonce, deposit |-> 1, expected |-> lastNonce + 1]
    ELSE [err |-> NoErr, deposit |-> 0, expected |-> 0]

verifyDepositNonces(batch, lastNonce) ==
    verifyLoop(batch.Deposits, 1, lastNonce + 1)

VerifyLastDepositNonceExecutedOnEthereumBatch(e, answer) ==
    IF e.batch = NilBatch
    THEN Result(e, ErrNilBatch, Nil, <<>>)
    ELSE IF answer.err # NoErr
         THEN Result(e, answer.err, Nil, <<"GetLastExecutedEthTxID">>)
         ELSE LET v == verifyDepositNonces(e.batch, answer.val)
              IN Result(e, v.err, v, <<"GetLastExecutedEthTxID">>)

\* the wait makes a chain call
ExecutorWaitPolling(e, event) == Result(e, NoErr, event, <<"QuorumReached">>)

\* WaitForTransferConfirmation: the select returns on the event that comes
\* first, the expiry of the timer or the cancellation of the context
ExecutorWaitForTransferConfirmation(e, event) == Result(e, NoErr, event, <<>>)

WaitEvents == {"timer.C", "ctx.Done"}

RpcErrors == {NoErr, ErrRPC}

ExecInit ==
    /\ ex = NewExecutor
    /\ exChain \in [pending : Batches \cup {NilBatch}, lastExecutedEthTxID : 0..MaxNonce]
    /\ exRes = [op |-> "none", before |-> NewExecutor,
                res |-> Result(NewExecutor, NoErr, Nil, <<>>), answer |-> Answer(Nil, NoErr)]

\* the operation's result is kept with the fields it started from
ExecApply(op, res, answer) ==
    /\ ex' = res.executor
    /\ exRes' = [op |-> op, before |-> ex, res |-> res, answer |-> answer]
    /\ UNCHANGED <<exChain, execRest>>

\* the elrondToEth flow fetches the pending batch and stores it
ExGetAndStoreBatchFromElrond ==
    \E err \in RpcErrors :
        LET answer == Answer(exChain.pending, err)
            got == GetBatchFromElrond(ex, answer)
        IN IF got.err # NoErr
           THEN ExecApply("GetBatchFromElrond", got, answer)
           ELSE ExecApply("StoreBatchFromElrond", StoreBatchFromElrond(ex, got.val), answer)

ExGetAndStoreBatchFromEthereum ==
    \E err \in RpcErrors :
        LET answer == Answer(exChain.pending, err)
        IN ExecApply("GetAndStoreBatchFromEthereum", GetAndStoreBatchFromEthereum(ex, answer), answer)

ExVerifyLastDepositNonce ==
    \E err \in RpcErrors :
        LET answer == Answer(exChain.lastExecutedEthTxID, err)
        IN ExecApply("VerifyLastDepositNonceExecutedOnEthereumBatch",
                     VerifyLastDepositNonceExecutedOnEthereumBatch(ex, answer), answer)

\* the caller is in WaitForTransferConfirmation, at the select
ExWaiting == exRes.op = "WaitForTransferConfirmation" /\ exRes.res.val = "select"

\* WaitForTransferConfirmation is called: the timer is made and the caller
\* blocks in the select
ExWaitBegin ==
    /\ ~ExWaiting
    /\ exRes' = [op |-> "WaitForTransferConfirmation", before |-> ex,
                 res |-> Result(ex, NoErr, "select", <<>>), answer |-> Answer(Nil, NoErr)]
    /\ UNCHANGED <<ex, exChain, execRest>>

\* the select takes the case of the event that came, and the call returns
ExWaitReturn(event) ==
    /\ ExWaiting
    /\ ExecApply("WaitForTransferConfirmation", ExecutorWaitForTransferConfirmation(ex, event), Answer(Nil, NoErr))

\* an executor in the middle of a transfer: a batch or none, the action id
\* and the hash set or not, retries made or not
Executors ==
    [batch : Batches \cup {NilBatch}, actionID : {InvalidActionID, 1}, msgHash : {0, 1},
     retriesOnElrond : 0..MaxRetries, retriesOnEthereum : 0..MaxRetries]

ExecWaitInit ==
    /\ ex \in Executors
    /\ exChain = [pending |-> NilBatch, lastExecutedEthTxID |-> 0]
    /\ exRes = [op |-> "none", before |-> NewExecutor,
                res |-> Result(NewExecutor, NoErr, Nil, <<>>), answer |-> Answer(Nil, NoErr)]

ExecWaitNext ==
    \/ ExWaitBegin
    \/ \E event \in WaitEvents : ExWaitReturn(event)

\* StoreBatchFromElrond called with any batch or with nil, on a new executor
\* or on one whose other fields are set
ExecStoreInit ==
    /\ ex \in {e \in Executors : e.batch = NilBatch /\ e.actionID = e.msgHash
                                  /\ e.retriesOnElrond = 0 /\ e.retriesOnEthereum = MaxRetries * e.actionID}
    /\ exChain = [pending |-> NilBatch, lastExecutedEthTxID |-> 0]
    /\ exRes = [op |-> "none", before |-> NewExecutor,
                res |-> Result(NewExecutor, NoErr, Nil, <<>>), answer |-> Answer(Nil, NoErr)]

ExStoreBatchFromElrond(batch) ==
    /\ ~ExWaiting
    /\ ExecApply("StoreBatchFromElrond", StoreBatchFromElrond(ex, batch), Answer(batch, NoErr))

\* the batches handed to StoreBatchFromElrond: deposits of consecutive
\* nonces that start at 0 or 1
StoreBatches ==
    {b \in Batches : \A i \in 1..Len(b.Deposits) :
                        b.Deposits[i].Nonce = b.Deposits[1].Nonce + i - 1 /\ b.Deposits[1].Nonce <= 1}

ExecStoreNext == \E batch \in StoreBatches \cup {NilBatch} : ExStoreBatchFromElrond(batch)

ExecNext ==
    \/ ~ExWaiting /\ ExGetAndStoreBatchFromElrond
    \/ ~ExWaiting /\ ExGetAndStoreBatchFromEthereum
    \/ ~ExWaiting /\ ExVerifyLastDepositNonce
    \/ ExWaitBegin
    \/ \E event \in WaitEvents : ExWaitReturn(event)

(***************************************************************************)
(* Broadcaster and signature holder (relay/p2p/broadcaster.go).            *)
(*                                                                         *)
(* A signed message carries the sender's public key, a payload, the       *)
(* sender's nonce and a signature over payload and nonce. A signature is  *)
(* modelled by the identity that produced it and what it covers: nobody   *)
(* can produce one of another identity.                                   *)
(***************************************************************************)
joinTopicName == "join/1"
signTopicName == "sign/1"
joinTopicMessage == <<"join topic", 0, 0>>
Topics == {joinTopicName, signTopicName}

ErrPeerNotWhitelisted == "ErrPeerNotWhitelisted"
ErrInvalidSignature == "ErrInvalidSignature"
ErrNonceTooLow == "ErrNonceTooLow"
ErrSend == "send error"

Broadcasters == 1..NumBroadcasters
Outsider == NumRelayers + 1             \* an identity outside the whitelist
Identities == Relayers \cup {Outsider}

\* RoleProvider.IsWhitelisted
IsWhitelisted(addressBytes) == \E r \in Relayers : BytesEqual(PublicKeyBytes(r), addressBytes)

SignatureOf(id, payload, nonce) == [signer |-> id, payload |-> payload, nonce |-> nonce]

\* SingleSigner.Verify under the declared public key
VerifySignature(msg) ==
    \E id \in Identities :
        /\ BytesEqual(PublicKeyBytes(id), msg.PublicKeyBytes)
        /\ msg.Signature = SignatureOf(id, msg.Payload, msg.Nonce)

SenderOf(msg) == CHOOSE id \in Identities : BytesEqual(PublicKeyBytes(id), msg.PublicKeyBytes)

\* NewBroadcaster: empty holders, the counter at its start value
NewBroadcaster(b) ==
    [id |-> b,
     registered |-> FALSE,
     counter |-> 0,
     joinedMessages |-> {},
     signedMessages |-> {},
     lastNonce |-> [t \in Topics |-> [id \in Identities |-> 0]]]

\* relayerMessageHandler.createMessage: the next nonce, signed with the own key
createMessage(b, bs, payload) ==
    LET nonce == bs.counter + 1
    IN [state |-> [bs EXCEPT !.counter = nonce],
        msg |-> [PublicKeyBytes |-> PublicKeyBytes(b), Payload |-> payload, Nonce |-> nonce,
                 Signature |-> SignatureOf(b, payload, nonce)]]

\* relayerMessageHandler.preProcessMessage: the signature must verify and the
\* nonce must be above the last one accepted from the sender on the topic
preProcessMessage(bs, topic, msg) ==
    IF ~VerifySignature(msg) THEN ErrInvalidSignature
    ELSE IF msg.Nonce <= bs.lastNonce[topic][SenderOf(msg)] THEN ErrNonceTooLow
    ELSE NoErr

NoteNonce(bs, topic, msg) ==
    [bs EXCEPT !.lastNonce[topic][SenderOf(msg)] = msg.Nonce]

\* signaturesHolder.addJoinedMessage: one joined message per public key
addJoinedMessage(bs, msg) ==
    [NoteNonce(bs, joinTopicName, msg) EXCEPT
        !.joinedMessages =
            {m \in bs.joinedMessages : ~BytesEqual(m.PublicKeyBytes, msg.PublicKeyBytes)} \cup {msg}]

\* signaturesHolder.addSignedMessage: one signed message per public key
addSignedMessage(bs, msg) ==
    [NoteNonce(bs, signTopicName, msg) EXCEPT
        !.signedMessages =
            {m \in bs.signedMessages : ~BytesEqual(m.PublicKeyBytes, msg.PublicKeyBytes)} \cup {msg}]

storedSignedMessages(bs) == bs.signedMessages

\* signaturesHolder.Signatures / SortedPublicKeys / ClearSignatures
Signatures(bs) == {m.Payload : m \in bs.signedMessages}
SortedPublicKeys(bs) == SortBytes({m.PublicKeyBytes : m \in bs.joinedMessages})
\* a clearing slip: the joined messages go as well
ClearSignaturesAndKeys(bs) == [bs EXCEPT !.signedMessages = {}, !.joinedMessages = {}]
ClearSignatures(bs) == [bs EXCEPT !.signedMessages = {}]

Packet(to, topic, peer, msg) == [to |-> to, topic |-> topic, peer |-> peer, msg |-> msg]

\* broadcastCurrentSignatures: every stored signed message is sent to the peer
\* on the sign topic; a send that fails is logged and the loop goes on
broadcastCurrentSignatures(bs, peerId, failing) ==
    {Packet(peerId, signTopicName, bs.id, m) : m \in storedSignedMessages(bs) \ failing}

Processed(bs, err, sends) == [state |-> bs, err |-> err, sends |-> sends]

\* the error of preProcessMessage is logged and the message handled all the same
ProcessReceivedMessageNoReturn(bs, topic, peer, msg, failing) ==
    IF ~IsWhitelisted(msg.PublicKeyBytes)
    THEN Processed(bs, ErrPeerNotWhitelisted, {})
    ELSE IF topic = joinTopicName
         THEN LET joined == addJoinedMessage(bs, msg)
              IN Processed(joined, NoErr, broadcastCurrentSignatures(joined, peer, failing))
         ELSE Processed(addSignedMessage(bs, msg), NoErr, {})

\* the whitelist is not consulted
ProcessReceivedMessageNoWhitelist(bs, topic, peer, msg, failing) ==
    LET err == preProcessMessage(bs, topic, msg)
    IN IF err # NoErr
       THEN Processed(bs, err, {})
       ELSE IF topic = joinTopicName
            THEN LET joined == addJoinedMessage(bs, msg)
                 IN Processed(joined, NoErr, broadcastCurrentSignatures(joined, peer, failing))
            ELSE Processed(addSignedMessage(bs, msg), NoErr, {})

\* a message of the join topic is stored as a signed message as well
ProcessReceivedMessageJoinStored(bs, topic, peer, msg, failing) ==
    LET err == preProcessMessage(bs, topic, msg)
    IN IF err # NoErr
       THEN Processed(bs, err, {})
       ELSE IF ~IsWhitelisted(msg.PublicKeyBytes)
            THEN Processed(bs, ErrPeerNotWhitelisted, {})
            ELSE IF topic = joinTopicName
                 THEN LET joined == addSignedMessage(addJoinedMessage(bs, msg), msg)
                      IN Processed(joined, NoErr, broadcastCurrentSignatures(joined, peer, failing))
                 ELSE Processed(addSignedMessage(bs, msg), NoErr, {})

\* the stored signatures are sent to the joiner only until the first failed send
ProcessReceivedMessageStopOnFail(bs, topic, peer, msg, failing) ==
    LET err == preProcessMessage(bs, topic, msg)
    IN IF err # NoErr
       THEN Processed(bs, err, {})
       ELSE IF ~IsWhitelisted(msg.PublicKeyBytes)
            THEN Processed(bs, ErrPeerNotWhitelisted, {})
            ELSE IF topic = joinTopicName
                 THEN LET joined == addJoinedMessage(bs, msg)
                      IN Processed(joined, NoErr,
                                   IF failing = {} THEN broadcastCurrentSignatures(joined, peer, {})
                                   ELSE {})
                 ELSE Processed(addSignedMessage(bs, msg), NoErr, {})

\* broadcaster.ProcessReceivedMessage
\* a join message is stored before it is checked
ProcessReceivedMessageJoinUnchecked(bs, topic, peer, msg, failing) ==
    IF topic = joinTopicName
    THEN LET joined == addJoinedMessage(bs, msg)
         IN Processed(joined, NoErr, broadcastCurrentSignatures(joined, peer, failing))
    ELSE LET err == preProcessMessage(bs, topic, msg)
         IN IF err # NoErr
            THEN Processed(bs, err, {})
            ELSE IF ~IsWhitelisted(msg.PublicKeyBytes)
                 THEN Processed(bs, ErrPeerNotWhitelisted, {})
                 ELSE Processed(addSignedMessage(bs, msg), NoErr, {})

ProcessReceivedMessage(bs, topic, peer, msg, failing) ==
    LET err == preProcessMessage(bs, topic, msg)
    IN IF err # NoErr
       THEN Processed(bs, err, {})
       ELSE IF ~IsWhitelisted(msg.PublicKeyBytes)
            THEN Processed(bs, ErrPeerNotWhitelisted, {})
            ELSE IF topic = joinTopicName
                 THEN LET joined == addJoinedMessage(bs, msg)
                      IN Processed(joined, NoErr, broadcastCurrentSignatures(joined, peer, failing))
                 ELSE Processed(addSignedMessage(bs, msg), NoErr, {})

\* broadcastMessage: the message is created and handed to the messenger, which
\* delivers it to every peer registered on the topic, the sender included
broadcastMessage(b, bs, payload, topic, peers) ==
    LET made == createMessage(b, bs, payload)
    IN [state |-> made.state,
        msg |-> made.msg,
        sends |-> {Packet(q, topic, b, made.msg) : q \in peers}]

\* the signature goes out on the join topic
BroadcastSignatureWrongTopic(b, bs, signature, peers) ==
    broadcastMessage(b, bs, signature, joinTopicName, peers)

BroadcastSignature(b, bs, signature, peers) ==
    broadcastMessage(b, bs, signature, signTopicName, peers)

BroadcastJoinTopic(b, bs, peers) ==
    broadcastMessage(b, bs, joinTopicMessage, joinTopicName, peers)

NoMsg == [none |-> TRUE]

RECURSIVE SumCounters(_, _)
SumCounters(f, S) ==
    IF S = {} THEN 0
    ELSE LET b == CHOOSE x \in S : TRUE IN f[b].counter + SumCounters(f, S \ {b})

\* the messages created so far, over all broadcasters
Broadcasts == SumCounters(bc, Broadcasters)
RegisteredPeers == {b \in Broadcasters : bc[b].registered}

\* no batch is pending and no relayer works on one
NoBatches == [pending |-> 0, at |-> [b \in Broadcasters |-> 0], executed |-> {}]

GossipInit ==
    /\ bc = [b \in Broadcasters |-> NewBroadcaster(b)]
    /\ net = {}
    /\ gRes = [ran |-> FALSE]
    /\ gFailures = 0
    /\ gClears = 0
    /\ gAccepted = {}
    /\ gLastSign = [b \in Broadcasters |-> [id \in Identities |-> NoMsg]]
    /\ gMissed = {}
    /\ gMade = [b \in Broadcasters |-> {}]
    /\ gWatch = TRUE
    /\ gBatch = NoBatches

NoResult == [ran |-> FALSE]
\* the relayers are up: every broadcaster is registered on both topics
GossipStartedInit ==
    /\ bc = [b \in Broadcasters |-> [NewBroadcaster(b) EXCEPT !.registered = TRUE]]
    /\ net = {}
    /\ gRes = [ran |-> FALSE]
    /\ gFailures = 0
    /\ gClears = 0
    /\ gAccepted = {}
    /\ gLastSign = [b \in Broadcasters |-> [id \in Identities |-> NoMsg]]
    /\ gMissed = {}
    /\ gMade = [b \in Broadcasters |-> {}]
    /\ gWatch = TRUE
    /\ gBatch = NoBatches

gossipHistory == <<gFailures, gAccepted, gLastSign, gMissed, gWatch>>
Made(topic, msg) == [topic |-> topic, msg |-> msg]

\* NewBroadcaster and RegisterOnTopics: the broadcaster is on both topics
Register(b) ==
    /\ ~bc[b].registered
    /\ bc' = [bc EXCEPT ![b].registered = TRUE]
    /\ gRes' = NoResult
    /\ UNCHANGED <<net, gossipHistory, gClears, gMade, gBatch, gossipRest>>

GBroadcastJoin(b) ==
    /\ bc[b].registered
    /\ bc[b].counter < MaxCounter
    /\ LET out == BroadcastJoinTopic(b, bc[b], RegisteredPeers)
       IN /\ bc' = [bc EXCEPT ![b] = out.state]
          /\ net' = net \cup out.sends
          /\ gMade' = [gMade EXCEPT ![b] = @ \cup {Made(joinTopicName, out.msg)}]
    /\ gRes' = NoResult
    /\ UNCHANGED <<gossipHistory, gClears, gBatch, gossipRest>>

\* the payload is the signature the relayer made for the current batch
GBroadcastSignature(b) ==
    /\ bc[b].registered
    /\ bc[b].counter < MaxCounter
    /\ LET out == BroadcastSignature(b, bc[b], <<"signature", b, bc[b].counter + 1>>, RegisteredPeers)
       IN /\ bc' = [bc EXCEPT ![b] = out.state]
          /\ net' = net \cup out.sends
          /\ gMissed' = gMissed \cup {[to |-> q, msg |-> out.msg] : q \in Broadcasters \ RegisteredPeers}
          /\ gMade' = [gMade EXCEPT ![b] = @ \cup {Made(signTopicName, out.msg)}]
    /\ gRes' = NoResult
    /\ UNCHANGED <<gFailures, gClears, gAccepted, gLastSign, gWatch, gBatch, gossipRest>>

BadMessage(msg) == ~IsWhitelisted(msg.PublicKeyBytes) \/ ~VerifySignature(msg)
StaleMessage(bs, topic, msg) ==
    ~BadMessage(msg) /\ msg.Nonce <= bs.lastNonce[topic][SenderOf(msg)]
AcceptedBefore(d) ==
    \E a \in gAccepted : a.to = d.to /\ a.topic = d.topic /\ a.msg = d.msg

\* a receiver processes packet d; some of the sends it makes in return may
\* fail.  gRes notes what the packet was and what the handler did with it.
Receive(d, from) ==
    LET bs == bc[d.to]
        attempted == {p.msg : p \in ProcessReceivedMessage(bs, d.topic, d.peer, d.msg, {}).sends}
    IN \E failing \in SUBSET attempted :
         /\ gFailures + Cardinality(failing) <= MaxSendFailures
         /\ LET out == ProcessReceivedMessage(bs, d.topic, d.peer, d.msg, failing)
            IN /\ bc' = [bc EXCEPT ![d.to] = out.state]
               /\ net' = (net \ {d}) \cup out.sends
               /\ gFailures' = gFailures + Cardinality(failing)
               /\ gRes' = IF gWatch
                          THEN [ran |-> TRUE, from |-> from, packet |-> d, err |-> out.err,
                                sent |-> out.sends, failing |-> failing,
                                bad |-> BadMessage(d.msg),
                                stale |-> StaleMessage(bs, d.topic, d.msg),
                                again |-> AcceptedBefore(d),
                                same |-> (out.state = bs /\ out.sends = {})]
                          ELSE NoResult
               /\ gAccepted' = IF gWatch /\ out.err = NoErr THEN gAccepted \cup {d} ELSE gAccepted
               /\ gLastSign' = IF gWatch /\ out.err = NoErr /\ d.topic = signTopicName
                               THEN [gLastSign EXCEPT ![d.to][SenderOf(d.msg)] = d.msg]
                               ELSE gLastSign

\* the messenger hands a packet in flight to its receiver
GDeliver(d) ==
    /\ d.to \in Broadcasters
    /\ Receive(d, "messenger")
    /\ UNCHANGED <<gMissed, gClears, gMade, gWatch, gBatch, gossipRest>>

\* the network hands a receiver, once more, a packet it accepted before
GReplay(d) ==
    /\ d \notin net
    /\ Receive(d, "replay")
    /\ UNCHANGED <<gMissed, gClears, gMade, gWatch, gBatch, gossipRest>>

\* the outsider hands a receiver a packet under its own key or under a
\* relayer's key; it can sign with its own key only
GForge(to, id, topic) ==
    /\ bc[to].registered
    /\ LET payload == <<"forged", 0, 0>>
           nonce == MaxCounter + 1
           msg == [PublicKeyBytes |-> PublicKeyBytes(id), Payload |-> payload, Nonce |-> nonce,
                   Signature |-> SignatureOf(Outsider, payload, nonce)]
       IN Receive(Packet(to, topic, Outsider, msg), "outsider")
    /\ UNCHANGED <<gMissed, gClears, gMade, gWatch, gBatch, gossipRest>>

GClearSignatures(b) ==
    /\ bc[b].registered
    /\ bc[b].signedMessages # {}
    /\ gClears < MaxClears
    /\ bc' = [bc EXCEPT ![b] = ClearSignatures(bc[b])]
    /\ gClears' = gClears + 1
    /\ gRes' = [ran |-> FALSE, cleared |-> b, keys |-> SortedPublicKeys(bc[b])]
    /\ UNCHANGED <<net, gossipHistory, gMade, gBatch, gossipRest>>

\* ---- the relayers' state machines over the signature store.  The source
\* has batch gBatch.pending pending; a relayer that fetches it starts the
\* batch, signs it and evaluates the quorum from its own store.
SignatureFor(b, batch) == <<"signature", b, batch>>
BatchOf(signature) == signature[3]

GossipBatchInit ==
    /\ bc = [b \in Broadcasters |-> [NewBroadcaster(b) EXCEPT !.registered = TRUE]]
    /\ net = {}
    /\ gRes = NoResult
    /\ gFailures = MaxSendFailures
    /\ gClears = 0
    /\ gAccepted = {}
    /\ gLastSign = [b \in Broadcasters |-> [id \in Identities |-> NoMsg]]
    /\ gMissed = {}
    /\ gMade = [b \in Broadcasters |-> {}]
    /\ gWatch = FALSE
    /\ gBatch = [NoBatches EXCEPT !.pending = 1]

\* Monitor.getPendingTransaction found a pending transaction: the stored
\* signatures are cleaned and the state machine goes on to the proposal
GStartBatch(b) ==
    /\ gBatch.at[b] < gBatch.pending
    /\ bc' = [bc EXCEPT ![b] = ClearSignatures(bc[b])]
    /\ gBatch' = [gBatch EXCEPT !.at[b] = gBatch.pending]
    /\ gRes' = [ran |-> FALSE, started |-> b, batch |-> gBatch.pending]
    /\ UNCHANGED <<net, gossipHistory, gClears, gMade, gossipRest>>

\* the relayer signs the batch it works on and broadcasts the signature
GSignBatch(b) ==
    /\ gBatch.at[b] > 0
    /\ gBatch.at[b] \notin gBatch.executed
    /\ \A made \in gMade[b] : made.msg.Payload # SignatureFor(b, gBatch.at[b])
    /\ bc[b].counter < MaxCounter
    /\ LET out == BroadcastSignature(b, bc[b], SignatureFor(b, gBatch.at[b]), RegisteredPeers)
       IN /\ bc' = [bc EXCEPT ![b] = out.state]
          /\ net' = net \cup out.sends
          /\ gMade' = [gMade EXCEPT ![b] = @ \cup {Made(signTopicName, out.msg)}]
    /\ gRes' = NoResult
    /\ UNCHANGED <<gossipHistory, gClears, gBatch, gossipRest>>

\* the relayer evaluates the quorum for the batch it works on from the
\* signatures it holds; with the signatures of all relayers for the batch
\* the batch is executed, and the next batch is pending
GEvaluateQuorum(b) ==
    /\ gBatch.at[b] > 0
    /\ gBatch.at[b] = gBatch.pending
    /\ LET batch == gBatch.at[b]
           held == Signatures(bc[b])
           reached == \A q \in Broadcasters : SignatureFor(q, batch) \in held
       IN /\ gRes' = [ran |-> FALSE, evaluated |-> b, batch |-> batch, held |-> held,
                      reached |-> reached]
          /\ gBatch' = IF reached /\ batch < MaxBatchID
                       THEN [gBatch EXCEPT !.pending = batch + 1, !.executed = @ \cup {batch}]
                       ELSE gBatch
    /\ UNCHANGED <<bc, net, gossipHistory, gClears, gMade, gossipRest>>

GossipBatchNext ==
    \/ \E b \in Broadcasters : GStartBatch(b)
    \/ \E b \in Broadcasters : GSignBatch(b)
    \/ \E b \in Broadcasters : GEvaluateQuorum(b)
    \/ \E d \in net : GDeliver(d)

GossipNext ==
    \/ \E b \in Broadcasters : Broadcasts < MaxBroadcastsAttacked /\ GBroadcastJoin(b)
    \/ \E b \in Broadcasters : Broadcasts < MaxBroadcastsAttacked /\ GBroadcastSignature(b)
    \/ \E d \in net : GDeliver(d)
    \/ \E d \in gAccepted : GReplay(d)
    \/ \E to \in Broadcasters, id \in Broadcasters \cup {Outsider}, topic \in Topics : GForge(to, id, topic)
    \/ \E b \in Broadcasters : GClearSignatures(b)

\* gossip among honest relayers that are all up, over reliable connections
GossipLiveNext ==
    \/ \E b \in Broadcasters : Broadcasts < MaxBroadcasts /\ GBroadcastJoin(b)
    \/ \E b \in Broadcasters : Broadcasts < MaxBroadcasts /\ GBroadcastSignature(b)
    \/ \E d \in net : GDeliver(d)

\* gossip among honest relayers that are all up and clear their signatures
\* when they start a new batch
GossipClearNext ==
    \/ \E b \in Broadcasters : Broadcasts < MaxBroadcastsCleared /\ GBroadcastJoin(b)
    \/ \E b \in Broadcasters : Broadcasts < MaxBroadcastsCleared /\ GBroadcastSignature(b)
    \/ \E d \in net : GDeliver(d)
    \/ \E b \in Broadcasters : GClearSignatures(b)

\* gossip among honest relayers that start at different times
LateJoinNext ==
    \/ \E b \in Broadcasters : Register(b)
    \/ \E b \in Broadcasters : Broadcasts < MaxBroadcastsLate /\ GBroadcastJoin(b)
    \/ \E b \in Broadcasters : Broadcasts < MaxBroadcastsLate /\ GBroadcastSignature(b)
    \/ \E d \in net : GDeliver(d)

(***************************************************************************)
(* The Monitor of relay/monitor.go: one state machine per relayer, whose   *)
(* Start loop takes the next state from a channel of capacity one and runs *)
(* its step in a goroutine of its own.  The bridges answer from mChain.    *)
(***************************************************************************)
MinSignaturePercent == 67

Monitors == 1..NumMonitors
MonitorStates ==
    {"GetPendingTransaction", "ProposeTransfer", "WaitForSignatures", "Execute",
     "WaitForTransferProposal", "WaitForExecute", "Stop", "ProposeSetStatus",
     "WaitForSetStatusProposal"}

TransferActionId == 1
SetStatusActionId == 2
PendingDepositNonce == 1
NoTransaction == [isNil |-> TRUE]
DepositTransaction(nonce) == [isNil |-> FALSE, DepositNonce |-> nonce, Status |-> "Pending", Error |-> NoErr]

\* NewMonitor: initialState is GetPendingTransaction, the zero State
NewMonitor ==
    [loop |-> "created", ch |-> <<>>, step |-> "none", inFlight |-> 0,
     pendingTransaction |-> NoTransaction, actionId |-> 0, executingBridge |-> "none"]

NewBridge == [proposed |-> FALSE, status |-> "none", signers |-> {}, executed |-> FALSE]

\* topologyProvider.PeerCount(): the peers this relayer knows of
PeerCount == mChain.peers
\* every relayer takes itself for the leader
AmITheLeaderAlways(m) == TRUE
AmITheLeader(m) == mLeader = m

\* the required count is rounded down
minCountRequiredFloor(peerCount) == (peerCount * MinSignaturePercent) \div 100

\* math.Ceil(float64(peerCount) * MinSignaturePercent / 100)
minCountRequired(peerCount) == (peerCount * MinSignaturePercent + 99) \div 100

\* what a step that called a bridge found when it made the call
NoCall == [op |-> "none"]
Called(m, op, b) ==
    [op |-> op, m |-> m, bridge |-> b, leader |-> mLeader = m, cancelled |-> mCtx,
     returned |-> mon[m].loop = "returned", proposed |-> mChain[b].proposed,
     signed |-> m \in mChain[b].signers, executed |-> mChain[b].executed]

\* what getPendingTransaction got and did: the topology provider's calls it
\* made and the state it sent
Fetched(m, tx, next, calls) ==
    [op |-> "GetPendingDepositTransaction", m |-> m, empty |-> tx = NoTransaction,
     next |-> next, calls |-> calls, cancelled |-> mCtx]

\* the select of a waiting step took ctx.Done
Stopped(m, state) == [op |-> "ctx.Done", m |-> m, step |-> state, cancelled |-> mCtx]

MonInit ==
    /\ mon = [m \in Monitors |-> NewMonitor]
    /\ mChain = [pending |-> TRUE, destination |-> NewBridge, source |-> NewBridge,
                 peers |-> NumMonitors]
    /\ mLeader \in Monitors
    /\ mCtx = FALSE
    /\ mCalls = [b \in {"source", "destination"} |-> [a \in {TransferActionId, SetStatusActionId} |-> 0]]
    /\ mBudget = [rotations |-> MaxRotations, failures |-> MaxBridgeFailures]
    /\ mRes = NoCall

\* Start, up to the loop: the channel is made and the initial state sent
Start(m) ==
    /\ mon[m].loop = "created"
    /\ mon' = [mon EXCEPT ![m].loop = "select", ![m].ch = <<"GetPendingTransaction">>]
    /\ mRes' = NoCall
    /\ UNCHANGED <<mChain, mLeader, mCtx, mCalls, mBudget, monRest>>

\* Start, one turn of the loop on the channel: the step is started in a
\* goroutine, or Start returns on Stop
Dispatch(m) ==
    /\ mon[m].loop = "select"
    /\ mon[m].ch # <<>>
    /\ LET state == Head(mon[m].ch)
       IN mon' = IF state = "Stop"
                 THEN [mon EXCEPT ![m].loop = "returned", ![m].ch = <<>>]
                 ELSE [mon EXCEPT ![m].ch = <<>>, ![m].step = state,
                                  ![m].inFlight = IF @ < 2 THEN @ + 1 ELSE @]
    /\ mRes' = NoCall
    /\ UNCHANGED <<mChain, mLeader, mCtx, mCalls, mBudget, monRest>>

\* Start, one turn of the loop on ctx.Done
LoopDone(m) ==
    /\ mon[m].loop = "select"
    /\ mCtx
    /\ mon' = [mon EXCEPT ![m].loop = "returned"]
    /\ mRes' = NoCall
    /\ UNCHANGED <<mChain, mLeader, mCtx, mCalls, mBudget, monRest>>

\* the goroutine sends the next state and goes on running
SendAndGoOn(ms, state) == [ms EXCEPT !.ch = Append(ms.ch, state)]

\* a step is over: its goroutine sends the next state and ends
Send(ms, state) ==
    [ms EXCEPT !.ch = Append(ms.ch, state), !.step = "none", !.inFlight = @ - 1]
Running(m, state) == mon[m].step = state /\ Len(mon[m].ch) < 1

\* what waitForSignatures counted and the state it sent
Counted(m, count, peerCount, next) ==
    [op |-> "SignersCount", m |-> m, count |-> count, peerCount |-> peerCount,
     next |-> next, cancelled |-> mCtx]

\* select on the timer and on ctx.Done: once the context is cancelled either
\* case may be the one chosen
TimerWins == {TRUE} \cup (IF mCtx THEN {FALSE} ELSE {})

\* a bridge call answers with an error while the environment has failures left
CallErrors == {NoErr} \cup (IF mBudget.failures > 0 THEN {ErrRPC} ELSE {})
Spend(err) == IF err = NoErr THEN mBudget ELSE [mBudget EXCEPT !.failures = @ - 1]

\* bridge.Sign: the relayer's signature is counted for the action
Sign(chain, b, m, err) ==
    IF err = NoErr THEN [chain EXCEPT ![b].signers = @ \cup {m}] ELSE chain

\* bridge.Execute: the action is executed; executing the set-status action
\* on the source ends the pending deposit
Execute(chain, b, err) ==
    IF err # NoErr THEN chain
    ELSE IF b = "source" THEN [chain EXCEPT ![b].executed = TRUE, !.pending = FALSE]
    ELSE [chain EXCEPT ![b].executed = TRUE]

\* the pending deposit is fetched and no state is sent before the timer
\* although there is none; the topology provider is cleaned all the same
getPendingTransactionNoNilCheck(m) ==
    /\ Running(m, "GetPendingTransaction")
    /\ LET tx == IF mChain.pending THEN DepositTransaction(PendingDepositNonce) ELSE NoTransaction
       IN /\ mon' = [mon EXCEPT ![m] =
                       Send([@ EXCEPT !.pendingTransaction = tx], "ProposeTransfer")]
          /\ mRes' = Fetched(m, tx, "ProposeTransfer", {"Clean"})
    /\ UNCHANGED <<mChain, mLeader, mCtx, mCalls, mBudget, monRest>>

getPendingTransaction(m) ==
    /\ Running(m, "GetPendingTransaction")
    /\ LET tx == IF mChain.pending THEN DepositTransaction(PendingDepositNonce) ELSE NoTransaction
       IN \E timer \in TimerWins :
            LET next == IF tx = NoTransaction
                        THEN (IF timer THEN "GetPendingTransaction" ELSE "Stop")
                        ELSE "ProposeTransfer"
            IN /\ mon' = [mon EXCEPT ![m] =
                            Send([@ EXCEPT !.pendingTransaction = tx], next)]
               /\ mRes' = Fetched(m, tx, next,
                                  IF tx = NoTransaction THEN {} ELSE {"Clean"})
    /\ UNCHANGED <<mChain, mLeader, mCtx, mCalls, mBudget, monRest>>

proposeTransfer(m) ==
    /\ Running(m, "ProposeTransfer")
    /\ IF AmITheLeader(m)
       THEN \E err \in CallErrors :
              /\ mBudget' = Spend(err)
              /\ mRes' = Called(m, "ProposeTransfer", "destination")
              /\ IF err # NoErr
                 THEN /\ mon' = [mon EXCEPT ![m] =
                                   Send([@ EXCEPT !.pendingTransaction.Status = "Rejected",
                                                  !.pendingTransaction.Error = err,
                                                  !.executingBridge = "source"],
                                        "ProposeSetStatus")]
                      /\ UNCHANGED mChain
                 ELSE /\ mon' = [mon EXCEPT ![m] = Send(@, "WaitForTransferProposal")]
                      /\ mChain' = [mChain EXCEPT !.destination.proposed = TRUE]
       ELSE /\ mon' = [mon EXCEPT ![m] = Send(@, "WaitForTransferProposal")]
            /\ mRes' = NoCall
            /\ UNCHANGED <<mChain, mBudget>>
    /\ UNCHANGED <<mLeader, mCtx, mCalls, monRest>>

waitForTransferProposal(m) ==
    /\ Running(m, "WaitForTransferProposal")
    /\ \E timer \in TimerWins :
         IF ~timer
         THEN /\ mon' = [mon EXCEPT ![m] = Send(@, "Stop")]
              /\ mRes' = Stopped(m, "WaitForTransferProposal")
              /\ UNCHANGED <<mChain, mBudget>>
         ELSE IF mChain.destination.proposed
              THEN \E err \in CallErrors :
                     /\ mBudget' = Spend(err)
                     /\ mRes' = Called(m, "Sign", "destination")
                     /\ mChain' = Sign(mChain, "destination", m, err)
                     /\ mon' = [mon EXCEPT ![m] =
                                  Send([@ EXCEPT !.actionId = TransferActionId,
                                                 !.executingBridge = "destination"],
                                       "WaitForSignatures")]
              ELSE /\ mon' = [mon EXCEPT ![m] = Send(@, "ProposeTransfer")]
                   /\ mRes' = NoCall
                   /\ UNCHANGED <<mChain, mBudget>>
    /\ UNCHANGED <<mLeader, mCtx, mCalls, monRest>>

\* the cancellation is not looked at: the step waits for signatures again
waitForSignaturesUncancelled(m) ==
    /\ Running(m, "WaitForSignatures")
    /\ \E timer \in TimerWins :
         IF ~timer
         THEN /\ mon' = [mon EXCEPT ![m] = Send(@, "WaitForSignatures")]
              /\ mRes' = Stopped(m, "WaitForSignatures")
         ELSE LET count == Cardinality(mChain[mon[m].executingBridge].signers)
                  peerCount == PeerCount
                  next == IF count >= minCountRequired(peerCount) /\ count > 0
                          THEN "Execute" ELSE "WaitForSignatures"
              IN /\ mon' = [mon EXCEPT ![m] = Send(@, next)]
                 /\ mRes' = Counted(m, count, peerCount, next)
    /\ UNCHANGED <<mChain, mLeader, mCtx, mCalls, mBudget, monRest>>

waitForSignatures(m) ==
    /\ Running(m, "WaitForSignatures")
    /\ \E timer \in TimerWins :
         IF ~timer
         THEN /\ mon' = [mon EXCEPT ![m] = Send(@, "Stop")]
              /\ mRes' = Stopped(m, "WaitForSignatures")
         ELSE LET count == Cardinality(mChain[mon[m].executingBridge].signers)
                  peerCount == PeerCount
                  next == IF count >= minCountRequired(peerCount) /\ count > 0
                          THEN "Execute" ELSE "WaitForSignatures"
              IN /\ mon' = [mon EXCEPT ![m] = Send(@, next)]
                 /\ mRes' = Counted(m, count, peerCount, next)
    /\ UNCHANGED <<mChain, mLeader, mCtx, mCalls, mBudget, monRest>>

execute(m) ==
    /\ Running(m, "Execute")
    /\ IF AmITheLeader(m)
       THEN LET b == mon[m].executingBridge
                a == mon[m].actionId
            IN /\ mCalls[b][a] < MaxExecuteCalls
               /\ \E err \in CallErrors :
                    /\ mBudget' = Spend(err)
                    /\ mChain' = Execute(mChain, b, err)
                    /\ mCalls' = [mCalls EXCEPT ![b][a] = @ + 1]
                    /\ mRes' = Called(m, "Execute", b)
       ELSE mRes' = NoCall /\ UNCHANGED <<mChain, mCalls, mBudget>>
    /\ mon' = [mon EXCEPT ![m] = Send(@, "WaitForExecute")]
    /\ UNCHANGED <<mLeader, mCtx, monRest>>

\* the execution is observed and the status of the transaction is left as it was
waitForExecuteStatusKept(m) ==
    /\ Running(m, "WaitForExecute")
    /\ \E timer \in TimerWins :
         IF ~timer
         THEN /\ mon' = [mon EXCEPT ![m] = Send(@, "Stop")]
              /\ mRes' = Stopped(m, "WaitForExecute")
         ELSE /\ mRes' = NoCall
              /\ IF mChain[mon[m].executingBridge].executed
                 THEN mon' = [mon EXCEPT ![m] =
                                Send(@, IF mon[m].executingBridge = "destination"
                                        THEN "ProposeSetStatus" ELSE "GetPendingTransaction")]
                 ELSE mon' = [mon EXCEPT ![m] = Send(@, "Execute")]
    /\ UNCHANGED <<mChain, mLeader, mCtx, mCalls, mBudget, monRest>>

waitForExecute(m) ==
    /\ Running(m, "WaitForExecute")
    /\ \E timer \in TimerWins :
         IF ~timer
         THEN /\ mon' = [mon EXCEPT ![m] = Send(@, "Stop")]
              /\ mRes' = Stopped(m, "WaitForExecute")
         ELSE /\ mRes' = NoCall
              /\ IF mChain[mon[m].executingBridge].executed
                 THEN mon' = [mon EXCEPT ![m] =
                                Send([@ EXCEPT !.pendingTransaction.Status = "Executed"],
                                     IF mon[m].executingBridge = "destination"
                                     THEN "ProposeSetStatus" ELSE "GetPendingTransaction")]
                 ELSE mon' = [mon EXCEPT ![m] = Send(@, "Execute")]
    /\ UNCHANGED <<mChain, mLeader, mCtx, mCalls, mBudget, monRest>>

proposeSetStatus(m) ==
    /\ Running(m, "ProposeSetStatus")
    /\ mChain' = IF AmITheLeader(m)
                 THEN [mChain EXCEPT !.source.proposed = TRUE,
                                     !.source.status = mon[m].pendingTransaction.Status]
                 ELSE mChain
    /\ mRes' = IF AmITheLeader(m) THEN Called(m, "ProposeSetStatus", "source") ELSE NoCall
    /\ mon' = [mon EXCEPT ![m] = Send(@, "WaitForSetStatusProposal")]
    /\ UNCHANGED <<mLeader, mCtx, mCalls, mBudget, monRest>>

waitForSetStatusProposal(m) ==
    /\ Running(m, "WaitForSetStatusProposal")
    /\ \E timer \in TimerWins :
         IF ~timer
         THEN /\ mon' = [mon EXCEPT ![m] = Send(@, "Stop")]
              /\ mRes' = Stopped(m, "WaitForSetStatusProposal")
              /\ UNCHANGED <<mChain, mBudget>>
         ELSE IF mChain.source.proposed
              THEN \E err \in CallErrors :
                     /\ mBudget' = Spend(err)
                     /\ mRes' = Called(m, "Sign", "source")
                     /\ mChain' = Sign(mChain, "source", m, err)
                     /\ mon' = [mon EXCEPT ![m] =
                                  Send([@ EXCEPT !.actionId = SetStatusActionId,
                                                 !.executingBridge = "source"],
                                       "WaitForSignatures")]
              ELSE /\ mon' = [mon EXCEPT ![m] = Send(@, "ProposeSetStatus")]
                   /\ mRes' = NoCall
                   /\ UNCHANGED <<mChain, mBudget>>
    /\ UNCHANGED <<mLeader, mCtx, mCalls, monRest>>

\* the context is cancelled
Cancel ==
    /\ ~mCtx
    /\ mCtx' = TRUE
    /\ mRes' = NoCall
    /\ UNCHANGED <<mon, mChain, mLeader, mCalls, mBudget, monRest>>

\* the leader's time window ends
Rotate ==
    /\ mBudget.rotations > 0
    /\ \E m \in Monitors \ {mLeader} : mLeader' = m
    /\ mBudget' = [mBudget EXCEPT !.rotations = @ - 1]
    /\ mRes' = NoCall
    /\ UNCHANGED <<mon, mChain, mCtx, mCalls, monRest>>

\* a relayer that runs elsewhere signs a proposed action on its chain
OtherRelayers == (NumMonitors + 1)..(NumMonitors + MaxOthers)
OtherSigns(b, p) ==
    /\ mChain[b].proposed
    /\ p \notin mChain[b].signers
    /\ mChain' = [mChain EXCEPT ![b].signers = @ \cup {p}]
    /\ mRes' = NoCall
    /\ UNCHANGED <<mon, mLeader, mCtx, mCalls, mBudget, monRest>>

\* the monitors of one relayer set that knows of any number of peers
MonPeersInit ==
    /\ mon = [m \in Monitors |-> NewMonitor]
    /\ \E peers \in 0..MaxPeers :
         mChain = [pending |-> TRUE, destination |-> NewBridge, source |-> NewBridge,
                   peers |-> peers]
    /\ mLeader \in Monitors
    /\ mCtx = FALSE
    /\ mCalls = [b \in {"source", "destination"} |-> [a \in {TransferActionId, SetStatusActionId} |-> 0]]
    /\ mBudget = [rotations |-> MaxRotations, failures |-> MaxBridgeFailures]
    /\ mRes = NoCall

MonNext ==
    \/ \E m \in Monitors : Start(m)
    \/ \E m \in Monitors : Dispatch(m)
    \/ \E m \in Monitors : LoopDone(m)
    \/ \E m \in Monitors : getPendingTransaction(m)
    \/ \E m \in Monitors : proposeTransfer(m)
    \/ \E m \in Monitors : waitForTransferProposal(m)
    \/ \E m \in Monitors : waitForSignatures(m)
    \/ \E m \in Monitors : execute(m)
    \/ \E m \in Monitors : waitForExecute(m)
    \/ \E m \in Monitors : proposeSetStatus(m)
    \/ \E m \in Monitors : waitForSetStatusProposal(m)
    \/ Cancel
    \/ Rotate

\* the monitors while their context is not cancelled, and the other relayers
MonPeersNext ==
    \/ \E m \in Monitors : Start(m)
    \/ \E m \in Monitors : Dispatch(m)
    \/ \E m \in Monitors : getPendingTransaction(m)
    \/ \E m \in Monitors : proposeTransfer(m)
    \/ \E m \in Monitors : waitForTransferProposal(m)
    \/ \E m \in Monitors : waitForSignatures(m)
    \/ \E m \in Monitors : execute(m)
    \/ \E m \in Monitors : waitForExecute(m)
    \/ \E m \in Monitors : proposeSetStatus(m)
    \/ \E m \in Monitors : waitForSetStatusProposal(m)
    \/ Rotate
    \/ \E b \in {"source", "destination"}, p \in OtherRelayers : OtherSigns(b, p)

(***************************************************************************)
(* One relayer's half-bridge.  The executor operations are those of        *)
(* bridgeExecutor.go; the steps follow section 4.2 of the specification    *)
(* and the step tests; the other relayers and the clock are environment.   *)
(***************************************************************************)
HalfBridges == {"ElrondToEth", "EthToElrond"}
SourceOf(dir) == IF dir = "ElrondToEth" THEN "Elrond" ELSE "Ethereum"
DestinationOf(dir) == IF dir = "ElrondToEth" THEN "Ethereum" ELSE "Elrond"
\* only the half-bridge of 4.2.1 reports the statuses back to the source
ReportsStatus(dir) == dir = "ElrondToEth"

Me == 0
Peers == 1..NumPeers
BatchIDs == 1..MaxBatchID
NewAction == [proposers |-> {}, signers |-> {}, performers |-> {}, statuses |-> <<>>]
NewChain == [transfer |-> NewAction, setStatus |-> NewAction]
InitialStep == "GetPendingBatch"

\* the client's answer to a quorum query on an action
QuorumReached(action, quorum, err) ==
    Answer(err = NoErr /\ Cardinality(action.signers) >= quorum, err)

\* the Elrond client's answers about one action, as seen by this relayer
ElrondClient(action, err) ==
    [WasExecuted |-> Answer(err = NoErr /\ action.performers # {}, err),
     WasSigned |-> Answer(err = NoErr /\ Me \in action.signers, err)]

\* an error of the quorum query is taken for a reached quorum
IsQuorumReachedErrorAsTrue(e, answer) ==
    IF answer.err # NoErr THEN Answer(TRUE, NoErr) ELSE answer

\* the quorum is never seen as reached
IsQuorumReachedNever(e, answer) == Answer(FALSE, answer.err)

\* IsQuorumReachedOnElrond: the client's QuorumReached for the stored action id
IsQuorumReachedOnElrond(e, answer) == answer

\* IsQuorumReachedOnEthereum: the client's IsQuorumReached for the message hash
IsQuorumReachedOnEthereum(e, answer) == answer

\* the counter is left as it is
ResetRetriesCountOnElrondKept(e) == e

\* the budget is never seen as exhausted
ProcessMaxRetriesNever(e, maxNumberOfRetries) == [executor |-> e, val |-> FALSE]

\* a comparison slip: "<=" where the code tests "<"
ProcessMaxRetriesOnElrondInclusive(e, maxNumberOfRetries) ==
    IF e.retriesOnElrond <= maxNumberOfRetries
    THEN [executor |-> [e EXCEPT !.retriesOnElrond = @ + 1], val |-> FALSE]
    ELSE [executor |-> e, val |-> TRUE]

ProcessMaxRetriesOnElrond(e, maxNumberOfRetries) ==
    IF e.retriesOnElrond < maxNumberOfRetries
    THEN [executor |-> [e EXCEPT !.retriesOnElrond = @ + 1], val |-> FALSE]
    ELSE [executor |-> e, val |-> TRUE]

ResetRetriesCountOnElrond(e) == [e EXCEPT !.retriesOnElrond = 0]

ProcessMaxRetriesOnEthereum(e, maxNumberOfRetries) ==
    IF e.retriesOnEthereum < maxNumberOfRetries
    THEN [executor |-> [e EXCEPT !.retriesOnEthereum = @ + 1], val |-> FALSE]
    ELSE [executor |-> e, val |-> TRUE]

ResetRetriesCountOnEthereum(e) == [e EXCEPT !.retriesOnEthereum = 0]

\* ---- the retry operations called on an executor; each client answers
\* GetMaxNumberOfRetriesOnQuorumReached with the maximum it is configured with
Clients == {"Elrond", "Ethereum"}
RetriesOn(e, client) == IF client = "Elrond" THEN e.retriesOnElrond ELSE e.retriesOnEthereum
WithRetriesOn(e, client, n) ==
    IF client = "Elrond" THEN [e EXCEPT !.retriesOnElrond = n]
    ELSE [e EXCEPT !.retriesOnEthereum = n]

ExecRetriesInit ==
    /\ ex \in {e \in Executors : e.retriesOnElrond = 0 /\ e.retriesOnEthereum = 0
                                  /\ e.batch \in StoreBatches \cup {NilBatch}}
    /\ exChain \in [pending : {NilBatch}, lastExecutedEthTxID : {0},
                     maxRetries : [Clients -> 0..MaxNumberOfRetries]]
    /\ exRes = [op |-> "none", before |-> NewExecutor,
                res |-> Result(NewExecutor, NoErr, Nil, <<>>), answer |-> Answer(Nil, NoErr)]

ExProcessMaxRetriesOnElrond ==
    LET maxNumberOfRetries == exChain.maxRetries["Elrond"]
        out == ProcessMaxRetriesOnElrond(ex, maxNumberOfRetries)
    IN /\ ~ExWaiting
       /\ ExecApply("ProcessMaxRetriesOnElrond",
                    Result(out.executor, NoErr, out.val, <<"Elrond.GetMaxNumberOfRetriesOnQuorumReached">>),
                    Answer(maxNumberOfRetries, NoErr))

ExProcessMaxRetriesOnEthereum ==
    LET maxNumberOfRetries == exChain.maxRetries["Ethereum"]
        out == ProcessMaxRetriesOnEthereum(ex, maxNumberOfRetries)
    IN /\ ~ExWaiting
       /\ ExecApply("ProcessMaxRetriesOnEthereum",
                    Result(out.executor, NoErr, out.val, <<"Ethereum.GetMaxNumberOfRetriesOnQuorumReached">>),
                    Answer(maxNumberOfRetries, NoErr))

ExResetRetriesCountOnElrond ==
    /\ ~ExWaiting
    /\ ExecApply("ResetRetriesCountOnElrond",
                 Result(ResetRetriesCountOnElrond(ex), NoErr, Nil, <<>>), Answer(Nil, NoErr))

ExResetRetriesCountOnEthereum ==
    /\ ~ExWaiting
    /\ ExecApply("ResetRetriesCountOnEthereum",
                 Result(ResetRetriesCountOnEthereum(ex), NoErr, Nil, <<>>), Answer(Nil, NoErr))

ExecRetriesNext ==
    \/ ExProcessMaxRetriesOnElrond
    \/ ExProcessMaxRetriesOnEthereum
    \/ ExResetRetriesCountOnElrond
    \/ ExResetRetriesCountOnEthereum

\* WasActionSignedOnElrond returns what the client's WasExecuted returns
WasActionSignedOnElrond(e, elrondClient) == elrondClient.WasExecuted

\* SignActionOnElrond: the client's Sign for the stored action id
SignActionOnElrond(e, err) == err

\* ethereumClient.GenerateMessageHash: a hash of the batch id and of the
\* deposits, one value per batch
RECURSIVE HashDeposits(_, _, _)
HashDeposits(deposits, i, h) ==
    IF i > Len(deposits) THEN h
    ELSE HashDeposits(deposits, i + 1, h * (MaxNonce + 2) + deposits[i].Nonce + 1)
MessageHash(batch) == HashDeposits(batch.Deposits, 1, batch.ID)

\* the signature is broadcast and the hash is not kept
SignTransferOnEthereumHashDropped(e, hash) ==
    IF e.batch = NilBatch THEN Result(e, ErrNilBatch, Nil, <<>>)
    ELSE IF hash.err # NoErr THEN Result(e, hash.err, Nil, <<"GenerateMessageHash">>)
    ELSE Result(e, NoErr, Nil,
                <<"GenerateMessageHash", "BroadcastSignatureForMessageHash">>)

\* SignTransferOnEthereum: the message hash of the batch is stored and the
\* signature broadcast; nothing asks whether it was broadcast before
SignTransferOnEthereum(e, hash) ==
    IF e.batch = NilBatch THEN Result(e, ErrNilBatch, Nil, <<>>)
    ELSE IF hash.err # NoErr THEN Result(e, hash.err, Nil, <<"GenerateMessageHash">>)
    ELSE Result([e EXCEPT !.msgHash = hash.val], NoErr, Nil,
                <<"GenerateMessageHash", "BroadcastSignatureForMessageHash">>)

\* every deposit is reported as executed, whatever the destination says
GetBatchStatusesAllExecuted(e, answer) ==
    IF e.batch = NilBatch THEN Result(e, ErrNilBatch, <<>>, <<>>)
    ELSE IF answer.err # NoErr THEN Result(e, answer.err, <<>>, <<"GetTransactionsStatuses">>)
    ELSE Result(e, NoErr, [i \in 1..Len(answer.val) |-> "Executed"],
                <<"GetTransactionsStatuses">>)

\* GetBatchStatusesFromEthereum: the client's statuses for the batch id
GetBatchStatusesFromEthereum(e, answer) ==
    IF e.batch = NilBatch THEN Result(e, ErrNilBatch, <<>>, <<>>)
    ELSE IF answer.err # NoErr THEN Result(e, answer.err, <<>>, <<"GetTransactionsStatuses">>)
    ELSE Result(e, NoErr, answer.val, <<"GetTransactionsStatuses">>)

\* PerformTransferOnEthereum: the quorum size is asked, then ExecuteTransfer
\* is called with the stored hash, the stored batch and the quorum size
PerformTransferOnEthereum(e, quorumSize, err) ==
    IF e.batch = NilBatch THEN Result(e, ErrNilBatch, Nil, <<>>)
    ELSE IF quorumSize.err # NoErr
    THEN Result(e, quorumSize.err, Nil, <<"GetQuorumSize">>)
    ELSE Result(e, err, [msgHash |-> e.msgHash, batch |-> e.batch, quorum |-> quorumSize.val],
                <<"GetQuorumSize", "ExecuteTransfer">>)

\* GetAndStoreActionIDForProposeTransferOnElrond: the action id the client
\* gives for the stored batch is stored and returned
GetAndStoreActionIDForProposeTransferOnElrond(e, answer) ==
    IF e.batch = NilBatch THEN Result(e, ErrNilBatch, InvalidActionID, <<>>)
    ELSE IF answer.err # NoErr
    THEN Result(e, answer.err, InvalidActionID, <<"GetActionIDForProposeTransfer">>)
    ELSE Result([e EXCEPT !.actionID = answer.val], NoErr, answer.val,
                <<"GetActionIDForProposeTransfer">>)

GetAndStoreActionIDForProposeSetStatusFromElrond(e, answer) ==
    IF e.batch = NilBatch THEN Result(e, ErrNilBatch, InvalidActionID, <<>>)
    ELSE IF answer.err # NoErr
    THEN Result(e, answer.err, InvalidActionID, <<"GetActionIDForSetStatusOnPendingTransfer">>)
    ELSE Result([e EXCEPT !.actionID = answer.val], NoErr, answer.val,
                <<"GetActionIDForSetStatusOnPendingTransfer">>)

WasTransferProposedOnElrond(e, answer) ==
    IF e.batch = NilBatch THEN Result(e, ErrNilBatch, FALSE, <<>>)
    ELSE Result(e, answer.err, answer.val, <<"WasProposedTransfer">>)

\* the transfer is proposed without a look at the stored batch
ProposeTransferOnElrondUnguarded(e, err) == Result(e, err, Nil, <<"ProposeTransfer">>)

ProposeTransferOnElrond(e, err) ==
    IF e.batch = NilBatch THEN Result(e, ErrNilBatch, Nil, <<>>)
    ELSE Result(e, err, Nil, <<"ProposeTransfer">>)

WasSetStatusProposedOnElrond(e, answer) ==
    IF e.batch = NilBatch THEN Result(e, ErrNilBatch, FALSE, <<>>)
    ELSE Result(e, answer.err, answer.val, <<"WasProposedSetStatus">>)

ProposeSetStatusOnElrond(e, err) ==
    IF e.batch = NilBatch THEN Result(e, ErrNilBatch, Nil, <<>>)
    ELSE Result(e, err, Nil, <<"ProposeSetStatus">>)

PerformActionOnElrond(e, err) ==
    IF e.batch = NilBatch THEN Result(e, ErrNilBatch, Nil, <<>>)
    ELSE Result(e, err, Nil, <<"PerformAction">>)

WasTransferPerformedOnEthereum(e, answer) ==
    IF e.batch = NilBatch THEN Result(e, ErrNilBatch, FALSE, <<>>)
    ELSE Result(e, answer.err, answer.val, <<"WasExecuted">>)

\* the executor operations that begin with the test of the stored batch,
\* called on an executor that holds a batch or none
ExecGuardInit ==
    /\ ex \in {e \in Executors : e.batch \in StoreBatches \cup {NilBatch}
                                  /\ e.retriesOnElrond = 0 /\ e.retriesOnEthereum = 0}
    /\ exChain = [pending |-> NilBatch, lastExecutedEthTxID |-> 0]
    /\ exRes = [op |-> "none", before |-> NewExecutor,
                res |-> Result(NewExecutor, NoErr, Nil, <<>>), answer |-> Answer(Nil, NoErr)]

\* what the clients may answer
BoolAnswers == {Answer(val, err) : val \in BOOLEAN, err \in RpcErrors}
ActionIDAnswers == {Answer(1, err) : err \in RpcErrors}
StatusAnswers == {Answer(<<"Executed", "Rejected">>, err) : err \in RpcErrors}

ExVerifyLastDepositNonceExecutedOnEthereumBatch ==
    /\ ~ExWaiting
    /\ \E err \in RpcErrors, lastNonce \in 0..1 :
            LET answer == Answer(lastNonce, err)
            IN ExecApply("VerifyLastDepositNonceExecutedOnEthereumBatch",
                         VerifyLastDepositNonceExecutedOnEthereumBatch(ex, answer), answer)

ExGetAndStoreActionIDForProposeTransferOnElrond ==
    /\ ~ExWaiting
    /\ \E answer \in ActionIDAnswers :
            ExecApply("GetAndStoreActionIDForProposeTransferOnElrond",
                      GetAndStoreActionIDForProposeTransferOnElrond(ex, answer), answer)

ExGetAndStoreActionIDForProposeSetStatusFromElrond ==
    /\ ~ExWaiting
    /\ \E answer \in ActionIDAnswers :
            ExecApply("GetAndStoreActionIDForProposeSetStatusFromElrond",
                      GetAndStoreActionIDForProposeSetStatusFromElrond(ex, answer), answer)

ExWasTransferProposedOnElrond ==
    /\ ~ExWaiting
    /\ \E answer \in BoolAnswers :
            ExecApply("WasTransferProposedOnElrond", WasTransferProposedOnElrond(ex, answer), answer)

ExProposeTransferOnElrond ==
    /\ ~ExWaiting
    /\ \E err \in RpcErrors :
            ExecApply("ProposeTransferOnElrond", ProposeTransferOnElrond(ex, err), Answer(Nil, err))

ExWasSetStatusProposedOnElrond ==
    /\ ~ExWaiting
    /\ \E answer \in BoolAnswers :
            ExecApply("WasSetStatusProposedOnElrond", WasSetStatusProposedOnElrond(ex, answer), answer)

ExProposeSetStatusOnElrond ==
    /\ ~ExWaiting
    /\ \E err \in RpcErrors :
            ExecApply("ProposeSetStatusOnElrond", ProposeSetStatusOnElrond(ex, err), Answer(Nil, err))

ExPerformActionOnElrond ==
    /\ ~ExWaiting
    /\ \E err \in RpcErrors :
            ExecApply("PerformActionOnElrond", PerformActionOnElrond(ex, err), Answer(Nil, err))

ExGetBatchStatusesFromEthereum ==
    /\ ~ExWaiting
    /\ \E answer \in StatusAnswers :
            ExecApply("GetBatchStatusesFromEthereum", GetBatchStatusesFromEthereum(ex, answer), answer)

ExWasTransferPerformedOnEthereum ==
    /\ ~ExWaiting
    /\ \E answer \in BoolAnswers :
            ExecApply("WasTransferPerformedOnEthereum",
                      WasTransferPerformedOnEthereum(ex, answer), answer)

ExSignTransferOnEthereum ==
    /\ ~ExWaiting
    /\ \E err \in RpcErrors :
            LET hash == Answer(IF ex.batch = NilBatch THEN 0 ELSE 1, err)
            IN ExecApply("SignTransferOnEthereum", SignTransferOnEthereum(ex, hash), hash)

ExPerformTransferOnEthereum ==
    /\ ~ExWaiting
    /\ \E err \in RpcErrors, quorumSize \in {Answer(1, e) : e \in RpcErrors} :
            ExecApply("PerformTransferOnEthereum",
                      PerformTransferOnEthereum(ex, quorumSize, err), quorumSize)

ExecGuardNext ==
    \/ ExVerifyLastDepositNonceExecutedOnEthereumBatch
    \/ ExGetAndStoreActionIDForProposeTransferOnElrond
    \/ ExGetAndStoreActionIDForProposeSetStatusFromElrond
    \/ ExWasTransferProposedOnElrond
    \/ ExProposeTransferOnElrond
    \/ ExWasSetStatusProposedOnElrond
    \/ ExProposeSetStatusOnElrond
    \/ ExPerformActionOnElrond
    \/ ExGetBatchStatusesFromEthereum
    \/ ExWasTransferPerformedOnEthereum
    \/ ExSignTransferOnEthereum
    \/ ExPerformTransferOnEthereum

IsQuorumReachedOn(chain, e, answer) ==
    IF chain = "Elrond" THEN IsQuorumReachedOnElrond(e, answer)
    ELSE IsQuorumReachedOnEthereum(e, answer)

ProcessMaxRetriesOn(chain, e, maxNumberOfRetries) ==
    IF chain = "Elrond" THEN ProcessMaxRetriesOnElrond(e, maxNumberOfRetries)
    ELSE ProcessMaxRetriesOnEthereum(e, maxNumberOfRetries)

ResetRetriesCount(e) == ResetRetriesCountOnEthereum(ResetRetriesCountOnElrond(e))

\* the first batch of the source: two deposits, the first one in sequence
PendingBatches ==
    {b \in Batches : b.ID = 1 /\ Len(b.Deposits) = 2 /\ b.Deposits[1].Nonce = 1
                     /\ b.Deposits[2].Nonce \in {2, 3}}

\* the batch that is pending once the first one is settled
NextBatch == [ID |-> 2, Deposits |-> <<[Nonce |-> 3], [Nonce |-> 4]>>]

StatusValues == {"Executed", "Rejected"}
\* every deposit is given the status Executed
StatusesAllExecuted(batch, status) == [i \in 1..Len(batch.Deposits) |-> "Executed"]
Statuses(batch, status) == [i \in 1..Len(batch.Deposits) |-> status]
\* what the destination may report for a batch of two deposits it executed
Outcomes == {<<"Executed", "Executed">>, <<"Rejected", "Executed">>}

NewHalfBridge ==
    [step |-> InitialStep, e |-> NewExecutor, statuses |-> <<>>, fetches |-> 0,
     polls |-> 0, path |-> "none", last |-> 0,
     lastBatch |-> NilBatch]
NoAnswer == Answer(FALSE, "none")

NewChains(pending, upcoming) ==
    [pending |-> pending, upcoming |-> upcoming, lastExecuted |-> 0, settled |-> {},
     Elrond |-> [id \in BatchIDs |-> NewChain],
     Ethereum |-> [id \in BatchIDs |-> NewChain]]

BridgeInit ==
    /\ br = NewHalfBridge
    /\ \E b \in PendingBatches : bChain = NewChains(b, <<NextBatch>>)
    /\ \E dir \in HalfBridges, quorum \in 1..(NumPeers + 1), leader \in BOOLEAN,
          n \in 0..MaxRetries :
         \E outcome \in IF ReportsStatus(dir) THEN Outcomes
                         ELSE {<<"Executed", "Executed">>} :
           bEnv = [dir |-> dir, quorum |-> quorum, leader |-> leader,
                   rotations |-> MaxRotations, faults |-> MaxBridgeFailures,
                   maxRetries |-> n, outcome |-> outcome]
    /\ bRes = [ran |-> FALSE]

\* a call to a chain fails while the environment has faults left; one step
\* makes a query first and a transaction next, and at most one of them fails
BridgeErrors == {NoErr} \cup (IF bEnv.faults > 0 THEN {ErrRPC} ELSE {})
StepErrors == {x \in BridgeErrors \X BridgeErrors : x[1] = NoErr \/ x[2] = NoErr}
Faults(errs) == IF errs[1] = NoErr /\ errs[2] = NoErr THEN 0 ELSE 1

Src == SourceOf(bEnv.dir)
Dst == DestinationOf(bEnv.dir)
\* the id of the stored batch: the actions the steps of this relayer are about
Id == br.e.batch.ID
QuorumOf(action) == Cardinality(action.signers) >= bEnv.quorum
Proposed(action) == action.proposers # {}
Performed(action) == action.performers # {}
Verifies(batch, chain) == verifyDepositNonces(batch, chain.lastExecuted).err = NoErr

TransferSteps ==
    {"ProposeTransfer", "SignProposedTransfer", "WaitForQuorumOnTransfer",
     "PerformTransfer", "WaitForTransferConfirmation"}
SetStatusSteps ==
    {"ProposeSetStatus", "SignProposedSetStatus", "WaitForQuorumOnSetStatus",
     "PerformSetStatus"}

\* has this relayer's signature been counted for the action of the current step
SignedBefore ==
    IF br.e.batch = NilBatch THEN FALSE
    ELSE IF br.step \in TransferSteps THEN Me \in bChain[Dst][Id].transfer.signers
    ELSE IF br.step \in SetStatusSteps THEN Me \in bChain[Src][Id].setStatus.signers
    ELSE FALSE

\* is the proposal of the current step's action visible on its chain
ProposedBefore ==
    IF br.e.batch = NilBatch THEN FALSE
    ELSE IF br.step \in TransferSteps THEN Proposed(bChain[Dst][Id].transfer)
    ELSE IF br.step \in SetStatusSteps THEN Proposed(bChain[Src][Id].setStatus)
    ELSE FALSE

\* what the step did: the calls it made, as <<chain, operation>>, what it
\* saw and where it went
Observed(next, errs, answer, calls) ==
    [ran |-> TRUE, step |-> br.step, next |-> next, quorum |-> answer, calls |-> calls,
     errs |-> errs, leader |-> bEnv.leader, signed |-> SignedBefore,
     proposed |-> ProposedBefore, stored |-> br.e.batch,
     polls |-> IF <<Dst, "IsQuorumReached">> \in calls THEN br.polls + 1 ELSE 0,
     previous |-> br.last, previousBatch |-> br.lastBatch,
     retries |-> [c \in Clients |-> RetriesOn(br.e, c)],
     msgHash |-> br.e.msgHash]

\* the step is over: the half-bridge is at `next`
StepDone(next, e, statuses, chain, errs, answer, calls) ==
    /\ br' = [br EXCEPT
                !.step = next, !.e = e, !.statuses = statuses,
                !.polls = IF next = "WaitForQuorumOnTransfer"
                             /\ br.step = "WaitForQuorumOnTransfer"
                          THEN (IF @ < MaxRetries + 2 THEN @ + 1 ELSE @)
                          ELSE 0,
                !.path = IF next = InitialStep THEN "none"
                         ELSE IF <<Dst, "ProposeTransfer">> \in calls /\ errs[2] # NoErr
                         THEN "proposeFailed"
                         ELSE @]
    /\ bChain' = chain
    /\ bEnv' = [bEnv EXCEPT !.faults = @ - Faults(errs)]
    /\ bRes' = Observed(next, errs, answer, calls)
    /\ UNCHANGED bridgeRest

\* back to the initial step, the stored batch and statuses dropped
Restart(chain, errs, answer, calls) ==
    StepDone(InitialStep, [br.e EXCEPT !.batch = NilBatch], <<>>, chain, errs, answer, calls)

\* 4.2.1 step 1: fetch the pending batch of the source and verify its nonces
GetPendingBatch ==
    /\ br.step = "GetPendingBatch"
    /\ \E errs \in StepErrors :
         LET answer == Answer(bChain.pending, errs[1])
             got == GetBatchFromElrond(br.e, answer)
             stored == IF Src = "Ethereum" THEN GetAndStoreBatchFromEthereum(br.e, answer)
                       ELSE IF got.err # NoErr THEN got
                       ELSE StoreBatchFromElrond(br.e, got.val)
             batch == IF stored.err = NoErr THEN stored.executor.batch ELSE NilBatch
             e == ResetRetriesCount(stored.executor)
             verified == verifyDepositNonces(batch, bChain.lastExecuted)
             next == IF batch = NilBatch THEN InitialStep
                     ELSE IF verified.err = NoErr THEN "ProposeTransfer"
                     ELSE IF ReportsStatus(bEnv.dir) THEN "ProposeSetStatus"
                     ELSE InitialStep
         IN /\ errs[2] = NoErr
            /\ br' = [br EXCEPT
                        !.fetches = IF @ < MaxFetches THEN @ + 1 ELSE @,
                        !.step = next,
                        !.e = IF next = InitialStep THEN [br.e EXCEPT !.batch = NilBatch] ELSE e,
                        !.statuses = IF next = "ProposeSetStatus"
                                     THEN Statuses(batch, "Rejected") ELSE <<>>,
                        !.polls = 0,
                        !.path = IF next = "ProposeSetStatus" THEN "nonceGap" ELSE "none",
                        !.last = IF batch # NilBatch THEN batch.ID ELSE @,
                        !.lastBatch = IF batch # NilBatch THEN batch ELSE @]
            /\ bRes' = [Observed(next, errs, NoAnswer, {<<Src, "GetPendingBatch">>})
                          EXCEPT !.stored = batch]
            /\ bEnv' = [bEnv EXCEPT !.faults = @ - Faults(errs)]
            /\ UNCHANGED <<bChain, bridgeRest>>

\* 4.2.1 step 2: propose the transfer on the destination unless it is proposed
ProposeTransfer ==
    /\ br.step = "ProposeTransfer"
    /\ \E errs \in StepErrors :
         LET asked == {<<Dst, "WasTransferProposed">>}
             written == asked \cup {<<Dst, "ProposeTransfer">>}
         IN IF errs[1] # NoErr THEN Restart(bChain, errs, NoAnswer, asked)
            ELSE IF Proposed(bChain[Dst][Id].transfer)
            THEN errs[2] = NoErr
                 /\ StepDone("SignProposedTransfer", br.e, br.statuses, bChain, errs,
                             NoAnswer, asked)
            ELSE IF ~bEnv.leader
            THEN errs[2] = NoErr
                 /\ StepDone("ProposeTransfer", br.e, br.statuses, bChain, errs,
                             NoAnswer, asked)
            ELSE IF errs[2] # NoErr
            THEN IF ReportsStatus(bEnv.dir)
                 THEN StepDone("ProposeSetStatus", br.e, Statuses(br.e.batch, "Rejected"),
                               bChain, errs, NoAnswer, written)
                 ELSE Restart(bChain, errs, NoAnswer, written)
            ELSE StepDone("SignProposedTransfer", br.e, br.statuses,
                          [bChain EXCEPT ![Dst][Id].transfer.proposers = @ \cup {Me}],
                          errs, NoAnswer, written)

\* the signing of the action `name` on `chain`: on Elrond the executor asks
\* WasActionSignedOnElrond and signs unless it answers true; on Ethereum the
\* executor generates the hash and broadcasts the signature
Signing(chain, name, next, actionID) ==
    \E errs \in StepErrors :
       LET action == bChain[chain][Id][name]
           e == [br.e EXCEPT !.actionID = actionID]
           wasSigned == WasActionSignedOnElrond(e, ElrondClient(action, errs[1]))
           signedOnEthereum == SignTransferOnEthereum(
                                   e, Answer(MessageHash(br.e.batch), errs[2]))
           signed == [bChain EXCEPT ![chain][Id][name].signers = @ \cup {Me}]
       IN IF chain = "Elrond"
          THEN IF wasSigned.err # NoErr
               THEN Restart(bChain, errs, NoAnswer, {<<chain, "WasActionSigned">>})
               ELSE IF wasSigned.val
               THEN errs[2] = NoErr
                    /\ StepDone(next, e, br.statuses, bChain, errs, NoAnswer,
                                {<<chain, "WasActionSigned">>})
               ELSE IF SignActionOnElrond(e, errs[2]) # NoErr
               THEN Restart(bChain, errs, NoAnswer,
                            {<<chain, "WasActionSigned">>, <<chain, "Sign">>})
               ELSE StepDone(next, e, br.statuses, signed, errs, NoAnswer,
                             {<<chain, "WasActionSigned">>, <<chain, "Sign">>})
          ELSE errs[1] = NoErr
               /\ IF signedOnEthereum.err # NoErr
                  THEN Restart(bChain, errs, NoAnswer, {<<chain, "GenerateMessageHash">>})
                  ELSE StepDone(next, signedOnEthereum.executor, br.statuses, signed, errs,
                                NoAnswer, {<<chain, "GenerateMessageHash">>, <<chain, "Sign">>})

\* 4.2.1 step 3: store the action id, sign unless this relayer has signed
SignProposedTransfer ==
    /\ br.step = "SignProposedTransfer"
    /\ Signing(Dst, "transfer", "WaitForQuorumOnTransfer", TransferActionId)

\* the wait for the quorum of the action `name` on `chain`: ask for the
\* quorum; reached, go on; else out of retries, back to the initial step
WaitingForQuorum(chain, name, next) ==
    \E errs \in StepErrors :
       LET asked == QuorumReached(bChain[chain][Id][name], bEnv.quorum, errs[1])
           answer == IsQuorumReachedOn(chain, br.e, asked)
           retries == ProcessMaxRetriesOn(chain, br.e, bEnv.maxRetries)
           calls == {<<chain, "IsQuorumReached">>}
       IN /\ errs[2] = NoErr
          /\ IF answer.err # NoErr THEN Restart(bChain, errs, asked, calls)
             ELSE IF answer.val
             THEN StepDone(next, ResetRetriesCount(br.e), br.statuses, bChain, errs,
                           asked, calls)
             ELSE IF retries.val THEN Restart(bChain, errs, asked, calls)
             ELSE StepDone(br.step, retries.executor, br.statuses, bChain, errs,
                           asked, calls)

\* 4.2.1 step 4
WaitForQuorumOnTransfer ==
    /\ br.step = "WaitForQuorumOnTransfer"
    /\ WaitingForQuorum(Dst, "transfer", "PerformTransfer")

\* the batch `id` is settled: the next batch of the source is pending
Settled(chain, id) ==
    [chain EXCEPT
       !.settled = @ \cup {id},
       !.pending = IF chain.upcoming = <<>> THEN NilBatch ELSE Head(chain.upcoming),
       !.upcoming = IF chain.upcoming = <<>> THEN <<>> ELSE Tail(chain.upcoming),
       !.lastExecuted = IF Performed(chain[Dst][id].transfer)
                        THEN chain.pending.Deposits[Len(chain.pending.Deposits)].Nonce
                        ELSE @]

\* the batch is settled by the execution of its transfer in either direction,
\* before any status is reported
TransferredSettles(chain, id, who) ==
    Settled([chain EXCEPT ![Dst][id].transfer.performers = @ \cup {who},
                          ![Dst][id].transfer.statuses = bEnv.outcome], id)

\* the transfer of the batch `id` is executed on the destination, which
\* settles the batch where the destination itself records the outcome
Transferred(chain, id, who) ==
    LET done == [chain EXCEPT ![Dst][id].transfer.performers = @ \cup {who},
                              ![Dst][id].transfer.statuses = bEnv.outcome]
    IN IF ReportsStatus(bEnv.dir) THEN done ELSE Settled(done, id)

\* 4.2.1 step 5: perform the transfer if it is not performed and this relayer leads
PerformTransfer ==
    /\ br.step = "PerformTransfer"
    /\ \E errs \in StepErrors :
         LET asked == {<<Dst, "WasTransferPerformed">>}
             written == asked \cup {<<Dst, "PerformTransfer">>}
         IN IF errs[1] # NoErr THEN Restart(bChain, errs, NoAnswer, asked)
            ELSE IF Performed(bChain[Dst][Id].transfer) \/ ~bEnv.leader
            THEN errs[2] = NoErr
                 /\ StepDone("WaitForTransferConfirmation", br.e, br.statuses, bChain,
                             errs, NoAnswer, asked)
            ELSE IF errs[2] # NoErr \/ ~QuorumOf(bChain[Dst][Id].transfer)
            THEN Restart(bChain, errs, NoAnswer, written)
            ELSE StepDone("WaitForTransferConfirmation", br.e, br.statuses,
                          Transferred(bChain, Id, Me), errs, NoAnswer, written)

\* 4.2.1 step 6 and 4.2.2 step 6: the wait is over
WaitForTransferConfirmation ==
    /\ br.step = "WaitForTransferConfirmation"
    /\ \E errs \in StepErrors :
         /\ errs[1] = NoErr /\ errs[2] = NoErr
         /\ IF ReportsStatus(bEnv.dir)
            THEN StepDone("ProposeSetStatus", br.e, br.statuses, bChain, errs, NoAnswer, {})
            ELSE Restart(bChain, errs, NoAnswer, {})

\* the destination's statuses for the batch `id`, final once it is executed
GetTransactionsStatuses(chain, id, err) ==
    IF err # NoErr \/ ~Performed(chain[Dst][id].transfer) THEN Answer(<<>>, ErrRPC)
    ELSE Answer(chain[Dst][id].transfer.statuses, NoErr)

\* a relayer that does not lead goes on to the signing step
ProposeSetStatusAdvancing ==
    /\ br.step = "ProposeSetStatus"
    /\ \E errs \in StepErrors :
         LET fetched == GetBatchStatusesFromEthereum(
                            br.e, GetTransactionsStatuses(bChain, Id, errs[1]))
             resolved == IF br.statuses # <<>> THEN Answer(br.statuses, NoErr) ELSE fetched
             fetching == IF br.statuses # <<>> THEN {} ELSE {<<Dst, "GetBatchStatuses">>}
             asked == fetching \cup {<<Src, "WasSetStatusProposed">>}
             written == asked \cup {<<Src, "ProposeSetStatus">>}
         IN IF resolved.err # NoErr
            THEN Restart(bChain, errs, NoAnswer, fetching)
            ELSE IF errs[1] # NoErr
            THEN Restart(bChain, errs, NoAnswer, asked)
            ELSE IF Proposed(bChain[Src][Id].setStatus)
            THEN errs[2] = NoErr
                 /\ StepDone("SignProposedSetStatus", br.e, resolved.val, bChain, errs,
                             NoAnswer, asked)
            ELSE IF ~bEnv.leader
            THEN errs[2] = NoErr
                 /\ StepDone("SignProposedSetStatus", br.e, resolved.val, bChain, errs,
                             NoAnswer, asked)
            ELSE IF errs[2] # NoErr THEN Restart(bChain, errs, NoAnswer, written)
            ELSE StepDone("SignProposedSetStatus", br.e, resolved.val,
                          [bChain EXCEPT ![Src][Id].setStatus.proposers = @ \cup {Me},
                                         ![Src][Id].setStatus.statuses = resolved.val],
                          errs, NoAnswer, written)

\* the answer that the set-status is proposed is not looked at
ProposeSetStatusUnasked ==
    /\ br.step = "ProposeSetStatus"
    /\ \E errs \in StepErrors :
         LET fetched == GetBatchStatusesFromEthereum(
                            br.e, GetTransactionsStatuses(bChain, Id, errs[1]))
             resolved == IF br.statuses # <<>> THEN Answer(br.statuses, NoErr) ELSE fetched
             fetching == IF br.statuses # <<>> THEN {} ELSE {<<Dst, "GetBatchStatuses">>}
             asked == fetching \cup {<<Src, "WasSetStatusProposed">>}
             written == asked \cup {<<Src, "ProposeSetStatus">>}
         IN IF resolved.err # NoErr
            THEN Restart(bChain, errs, NoAnswer, fetching)
            ELSE IF errs[1] # NoErr
            THEN Restart(bChain, errs, NoAnswer, asked)
            ELSE IF ~bEnv.leader
            THEN errs[2] = NoErr
                 /\ StepDone("ProposeSetStatus", br.e, resolved.val, bChain, errs,
                             NoAnswer, asked)
            ELSE IF errs[2] # NoErr THEN Restart(bChain, errs, NoAnswer, written)
            ELSE StepDone("SignProposedSetStatus", br.e, resolved.val,
                          [bChain EXCEPT ![Src][Id].setStatus.proposers = @ \cup {Me},
                                         ![Src][Id].setStatus.statuses = resolved.val],
                          errs, NoAnswer, written)

\* an error of the propose call is logged and the step goes on to the signing
ProposeSetStatusErrorsLogged ==
    /\ br.step = "ProposeSetStatus"
    /\ \E errs \in StepErrors :
         LET fetched == GetBatchStatusesFromEthereum(
                            br.e, GetTransactionsStatuses(bChain, Id, errs[1]))
             resolved == IF br.statuses # <<>> THEN Answer(br.statuses, NoErr) ELSE fetched
             fetching == IF br.statuses # <<>> THEN {} ELSE {<<Dst, "GetBatchStatuses">>}
             asked == fetching \cup {<<Src, "WasSetStatusProposed">>}
             written == asked \cup {<<Src, "ProposeSetStatus">>}
         IN IF GetStoredBatch(br.e) = NilBatch
            THEN errs[1] = NoErr /\ errs[2] = NoErr /\ Restart(bChain, errs, NoAnswer, {})
            ELSE IF resolved.err # NoErr
            THEN Restart(bChain, errs, NoAnswer, fetching)
            ELSE IF errs[1] # NoErr
            THEN Restart(bChain, errs, NoAnswer, asked)
            ELSE IF Proposed(bChain[Src][Id].setStatus)
            THEN errs[2] = NoErr
                 /\ StepDone("SignProposedSetStatus", br.e, resolved.val, bChain, errs,
                             NoAnswer, asked)
            ELSE IF ~bEnv.leader
            THEN errs[2] = NoErr
                 /\ StepDone("ProposeSetStatus", br.e, resolved.val, bChain, errs,
                             NoAnswer, asked)
            ELSE IF errs[2] # NoErr
            THEN StepDone("SignProposedSetStatus", br.e, resolved.val, bChain, errs,
                          NoAnswer, written)
            ELSE StepDone("SignProposedSetStatus", br.e, resolved.val,
                          [bChain EXCEPT ![Src][Id].setStatus.proposers = @ \cup {Me},
                                         ![Src][Id].setStatus.statuses = resolved.val],
                          errs, NoAnswer, written)

\* 4.2.1 step 7, resolve and propose: without a stored batch the step goes
\* back to the initial step; the statuses come from the destination unless
\* the batch was rejected; the leader proposes them on the source
ProposeSetStatus ==
    /\ br.step = "ProposeSetStatus"
    /\ \E errs \in StepErrors :
         LET fetched == GetBatchStatusesFromEthereum(
                            br.e, GetTransactionsStatuses(bChain, Id, errs[1]))
             resolved == IF br.statuses # <<>> THEN Answer(br.statuses, NoErr) ELSE fetched
             fetching == IF br.statuses # <<>> THEN {} ELSE {<<Dst, "GetBatchStatuses">>}
             asked == fetching \cup {<<Src, "WasSetStatusProposed">>}
             written == asked \cup {<<Src, "ProposeSetStatus">>}
         IN IF GetStoredBatch(br.e) = NilBatch
            THEN errs[1] = NoErr /\ errs[2] = NoErr /\ Restart(bChain, errs, NoAnswer, {})
            ELSE IF resolved.err # NoErr
            THEN Restart(bChain, errs, NoAnswer, fetching)
            ELSE IF errs[1] # NoErr
            THEN Restart(bChain, errs, NoAnswer, asked)
            ELSE IF Proposed(bChain[Src][Id].setStatus)
            THEN errs[2] = NoErr
                 /\ StepDone("SignProposedSetStatus", br.e, resolved.val, bChain, errs,
                             NoAnswer, asked)
            ELSE IF ~bEnv.leader
            THEN errs[2] = NoErr
                 /\ StepDone("ProposeSetStatus", br.e, resolved.val, bChain, errs,
                             NoAnswer, asked)
            ELSE IF errs[2] # NoErr THEN Restart(bChain, errs, NoAnswer, written)
            ELSE StepDone("SignProposedSetStatus", br.e, resolved.val,
                          [bChain EXCEPT ![Src][Id].setStatus.proposers = @ \cup {Me},
                                         ![Src][Id].setStatus.statuses = resolved.val],
                          errs, NoAnswer, written)

\* 4.2.1 step 7, sign: store the action id, sign unless this relayer has signed
SignProposedSetStatus ==
    /\ br.step = "SignProposedSetStatus"
    /\ Signing(Src, "setStatus", "WaitForQuorumOnSetStatus", SetStatusActionId)

\* 4.2.1 step 7, wait for quorum
WaitForQuorumOnSetStatus ==
    /\ br.step = "WaitForQuorumOnSetStatus"
    /\ WaitingForQuorum(Src, "setStatus", "PerformSetStatus")

\* the set-status of the batch `id` is executed on the source
StatusSet(chain, id, who) ==
    Settled([chain EXCEPT ![Src][id].setStatus.performers = @ \cup {who}], id)

\* 4.2.1 step 7, execute: on success the batch is cleared
PerformSetStatus ==
    /\ br.step = "PerformSetStatus"
    /\ \E errs \in StepErrors :
         LET asked == {<<Src, "WasSetStatusPerformed">>}
             written == asked \cup {<<Src, "PerformSetStatus">>}
         IN IF errs[1] # NoErr THEN Restart(bChain, errs, NoAnswer, asked)
            ELSE IF Performed(bChain[Src][Id].setStatus)
            THEN errs[2] = NoErr /\ Restart(bChain, errs, NoAnswer, asked)
            ELSE IF ~bEnv.leader
            THEN errs[2] = NoErr
                 /\ StepDone("PerformSetStatus", br.e, br.statuses, bChain, errs,
                             NoAnswer, asked)
            ELSE IF errs[2] # NoErr \/ ~QuorumOf(bChain[Src][Id].setStatus)
            THEN Restart(bChain, errs, NoAnswer, written)
            ELSE Restart(StatusSet(bChain, Id, Me), errs, NoAnswer, written)

\* ---- the environment: the other relayers and the rotation of the leader
BridgeQuiet == bRes' = [ran |-> FALSE] /\ UNCHANGED <<br, bridgeRest>>

\* a peer signs an action of the pending batch that is proposed and not executed
PeerSigns(p) ==
    /\ bChain.pending # NilBatch
    /\ LET id == bChain.pending.ID
       IN \/ /\ Proposed(bChain[Dst][id].transfer) /\ ~Performed(bChain[Dst][id].transfer)
             /\ p \notin bChain[Dst][id].transfer.signers
             /\ bChain' = [bChain EXCEPT ![Dst][id].transfer.signers = @ \cup {p}]
          \/ /\ Proposed(bChain[Src][id].setStatus) /\ ~Performed(bChain[Src][id].setStatus)
             /\ p \notin bChain[Src][id].setStatus.signers
             /\ bChain' = [bChain EXCEPT ![Src][id].setStatus.signers = @ \cup {p}]
    /\ UNCHANGED bEnv
    /\ BridgeQuiet

\* a peer that leads does what the leader does for the pending batch:
\* propose, then perform; a batch that does not verify is rejected
PeerLeads(p) ==
    /\ ~bEnv.leader
    /\ bChain.pending # NilBatch
    /\ LET id == bChain.pending.ID
           verifies == Verifies(bChain.pending, bChain)
       IN \/ /\ verifies /\ ~Proposed(bChain[Dst][id].transfer)
             /\ bChain' = [bChain EXCEPT ![Dst][id].transfer.proposers = @ \cup {p}]
          \/ /\ QuorumOf(bChain[Dst][id].transfer) /\ ~Performed(bChain[Dst][id].transfer)
             /\ bChain' = Transferred(bChain, id, p)
          \/ /\ ReportsStatus(bEnv.dir) /\ ~Proposed(bChain[Src][id].setStatus)
             /\ Performed(bChain[Dst][id].transfer) \/ ~verifies
             /\ bChain' = [bChain EXCEPT
                             ![Src][id].setStatus.proposers = @ \cup {p},
                             ![Src][id].setStatus.statuses =
                                 IF verifies THEN bChain[Dst][id].transfer.statuses
                                 ELSE Statuses(bChain.pending, "Rejected")]
          \/ /\ QuorumOf(bChain[Src][id].setStatus) /\ ~Performed(bChain[Src][id].setStatus)
             /\ bChain' = StatusSet(bChain, id, p)
    /\ UNCHANGED bEnv
    /\ BridgeQuiet

\* the interval for leader is over: the leader is another relayer
LeaderRotates ==
    /\ bEnv.rotations > 0
    /\ bEnv' = [bEnv EXCEPT !.leader = ~@, !.rotations = @ - 1]
    /\ UNCHANGED bChain
    /\ BridgeQuiet

BridgeStep ==
    \/ GetPendingBatch
    \/ ProposeTransfer
    \/ SignProposedTransfer
    \/ WaitForQuorumOnTransfer
    \/ PerformTransfer
    \/ WaitForTransferConfirmation
    \/ ProposeSetStatus
    \/ SignProposedSetStatus
    \/ WaitForQuorumOnSetStatus
    \/ PerformSetStatus

BridgeNext ==
    \/ GetPendingBatch
    \/ ProposeTransfer
    \/ SignProposedTransfer
    \/ WaitForQuorumOnTransfer
    \/ PerformTransfer
    \/ WaitForTransferConfirmation
    \/ ProposeSetStatus
    \/ SignProposedSetStatus
    \/ WaitForQuorumOnSetStatus
    \/ PerformSetStatus
    \/ \E p \in Peers : PeerSigns(p)
    \/ \E p \in Peers : PeerLeads(p)
    \/ LeaderRotates

\* the happy path: this relayer leads all along, no call fails
BridgeLiveNext ==
    \/ GetPendingBatch
    \/ ProposeTransfer
    \/ SignProposedTransfer
    \/ WaitForQuorumOnTransfer
    \/ PerformTransfer
    \/ WaitForTransferConfirmation
    \/ ProposeSetStatus
    \/ SignProposedSetStatus
    \/ WaitForQuorumOnSetStatus
    \/ PerformSetStatus
    \/ \E p \in Peers : PeerSigns(p)

(***************************************************************************)
(* The bridge components (factory/ethElrondBridgeComponents.go): Start,    *)
(* the goroutine that repeats the join broadcast, and Close. Start and     *)
(* Close run on the caller's goroutine, the loop runs on its own, so each  *)
(* is modelled by the steps between which the other one can run.           *)
(***************************************************************************)
Closables == 1..NumClosables

NewComponents ==
    [start      |-> "new",      \* where Start is: new, bootstrapped, registered, started, failed
     loop       |-> "none",     \* the goroutine: none, spawned, waiting (in the select), returned
     cancelFunc |-> FALSE,      \* whether components.cancelFunc was assigned
     ctxDone    |-> FALSE,      \* whether the loop's context was cancelled
     close      |-> "none",     \* where Close is: none, closing, returned
     closed     |-> 0,          \* the closable handlers Close went through
     lastError  |-> NoErr,      \* Close's lastError
     joins      |-> 0,          \* history: BroadcastJoinTopic calls issued
     late       |-> 0]          \* history: those issued after Close returned

CompInit == cp = NewComponents

CompBroadcastJoinTopic(c) ==
    [c EXCEPT !.joins = IF c.joins < MaxJoins THEN c.joins + 1 ELSE c.joins,
              !.late = IF c.close = "returned" THEN 1 ELSE c.late]

\* Start, up to the sleep that follows messenger.Bootstrap
StartBootstrap(err) ==
    /\ cp.start = "new"
    /\ cp' = [cp EXCEPT !.start = IF err = NoErr THEN "bootstrapped" ELSE "failed"]
    /\ UNCHANGED compRest

\* Start, RegisterOnTopics and the first BroadcastJoinTopic
StartRegister(err) ==
    /\ cp.start = "bootstrapped"
    /\ cp' = IF err = NoErr
             THEN CompBroadcastJoinTopic([cp EXCEPT !.start = "registered"])
             ELSE [cp EXCEPT !.start = "failed"]
    /\ UNCHANGED compRest

\* Start, startPollingHandlers and the go statement
StartPolling(err) ==
    /\ cp.start = "registered"
    /\ cp' = IF err = NoErr
             THEN [cp EXCEPT !.start = "started", !.loop = "spawned"]
             ELSE [cp EXCEPT !.start = "failed"]
    /\ UNCHANGED compRest

\* the goroutine makes the timer and the context and assigns cancelFunc
LoopStart ==
    /\ cp.loop = "spawned"
    /\ cp' = [cp EXCEPT !.loop = "waiting", !.cancelFunc = TRUE]
    /\ UNCHANGED compRest

\* the select takes the timer's case; the timer can be ready together
\* with ctx.Done(), and then the select takes either
LoopTimer ==
    /\ cp.loop = "waiting"
    /\ cp' = CompBroadcastJoinTopic(cp)
    /\ UNCHANGED compRest

\* the select takes ctx.Done()
LoopReturn ==
    /\ cp.loop = "waiting"
    /\ cp.ctxDone
    /\ cp' = [cp EXCEPT !.loop = "returned"]
    /\ UNCHANGED compRest

\* Close, the call of cancelFunc when it is not nil. The read of cancelFunc
\* is not synchronised with the goroutine's write
CloseCancel ==
    /\ cp.start \in {"started", "failed"}
    /\ cp.close = "none"
    /\ cp' = [cp EXCEPT !.close = "closing", !.ctxDone = cp.cancelFunc]
    /\ UNCHANGED compRest

\* Close, one closable handler
CloseHandler(err) ==
    /\ cp.close = "closing"
    /\ cp.closed < NumClosables
    /\ cp' = [cp EXCEPT !.closed = cp.closed + 1,
                        !.lastError = IF err = NoErr THEN cp.lastError ELSE err]
    /\ UNCHANGED compRest

CloseReturn ==
    /\ cp.close = "closing"
    /\ cp.closed = NumClosables
    /\ cp' = [cp EXCEPT !.close = "returned"]
    /\ UNCHANGED compRest

CompErrors == {NoErr, "error"}

CompNext ==
    \/ \E err \in CompErrors : StartBootstrap(err)
    \/ \E err \in CompErrors : StartRegister(err)
    \/ \E err \in CompErrors : StartPolling(err)
    \/ LoopStart
    \/ LoopTimer
    \/ LoopReturn
    \/ CloseCancel
    \/ \E err \in CompErrors : CloseHandler(err)
    \/ CloseReturn

(***************************************************************************)
(* The relayers on a bridge whose token is declared native on both chains  *)
(* (integrationTests/relayers/slowTests, TestRelayersShouldNotExecute-     *)
(* Transfers). The code that finds the setup invalid is not in the         *)
(* sources at hand; what the relayers do is taken from what the test       *)
(* requires of them: one batch is created, and the test passes when the    *)
(* invalid-setup error was logged numOfErrorsToWait times while the        *)
(* receiver's balance is still 0.                                          *)
(***************************************************************************)
NumOfTimesToRepeatErrorForRelayer == 10
NumOfErrorsToWait == NumOfTimesToRepeatErrorForRelayer * NumRelayers
Directions == {"ToMultiversX", "FromMultiversX"}

NewSimulatedSetup(direction) ==
    [direction |-> direction,
     batch     |-> "pending",   \* the one batch createBatch made, as the source chain has it
     balance   |-> 0,           \* the receiver's balance of the token
     step      |-> [r \in Relayers |-> "GetPendingBatch"],
     logged    |-> [r \in Relayers |-> 0],  \* history: errors a relayer logged for the batch
     chanCnt   |-> 0,           \* the test's count of the log lines found
     passed    |-> FALSE]       \* the test returned at "test passed, relayers are stuck"

SetupInit == \E direction \in Directions : su = NewSimulatedSetup(direction)

\* a relayer fetches the pending batch
SetupGetPendingBatch(r) ==
    /\ ~su.passed
    /\ su.step[r] = "GetPendingBatch"
    /\ su.batch = "pending"
    /\ su' = [su EXCEPT !.step[r] = "ProposeTransfer"]
    /\ UNCHANGED setupRest

\* the relayer's executor finds the setup invalid and logs the error; the
\* relayer starts over and the batch stays as it is
SetupInvalid(r) ==
    /\ ~su.passed
    /\ su.step[r] = "ProposeTransfer"
    /\ su' = [su EXCEPT !.step[r] = "GetPendingBatch",
                        !.logged[r] = IF @ < MaxErrorsCounted THEN @ + 1 ELSE @,
                        !.chanCnt = IF @ < NumOfErrorsToWait THEN @ + 1 ELSE @]
    /\ UNCHANGED setupRest

\* the test has found the log line often enough and checks the balance
SetupTestPassed ==
    /\ ~su.passed
    /\ su.chanCnt >= NumOfErrorsToWait
    /\ su.balance = 0
    /\ su' = [su EXCEPT !.passed = TRUE]
    /\ UNCHANGED setupRest

SetupNext ==
    \/ \E r \in Relayers : SetupGetPendingBatch(r)
    \/ \E r \in Relayers : SetupInvalid(r)
    \/ SetupTestPassed

(***************************************************************************)
(* Idle values and specifications.                                         *)
(***************************************************************************)
TopoIdle == TopoInit

CompIdle == CompInit

SetupIdle == su = NewSimulatedSetup("ToMultiversX")

ExecIdle ==
    /\ ex = NewExecutor
    /\ exChain = [pending |-> NilBatch, lastExecutedEthTxID |-> 0]
    /\ exRes = [op |-> "none", before |-> NewExecutor,
                res |-> Result(NewExecutor, NoErr, Nil, <<>>), answer |-> Answer(Nil, NoErr)]

GossipIdle == GossipInit
MonIdle ==
    /\ mon = [m \in Monitors |-> NewMonitor]
    /\ mChain = [pending |-> FALSE, destination |-> NewBridge, source |-> NewBridge,
                 peers |-> NumMonitors]
    /\ mLeader = 1
    /\ mCtx = FALSE
    /\ mCalls = [b \in {"source", "destination"} |-> [a \in {TransferActionId, SetStatusActionId} |-> 0]]
    /\ mBudget = [rotations |-> 0, failures |-> 0]
    /\ mRes = NoCall

BridgeIdle ==
    /\ br = NewHalfBridge
    /\ bChain = NewChains(NilBatch, <<>>)
    /\ bEnv = [dir |-> "ElrondToEth", quorum |-> 1, leader |-> TRUE, rotations |-> 0,
               faults |-> 0, maxRetries |-> 0, outcome |-> <<"Executed", "Executed">>]
    /\ bRes = [ran |-> FALSE]

TopoSpecInit == TopoInit /\ ExecIdle /\ GossipIdle /\ MonIdle /\ BridgeIdle /\ CompIdle /\ SetupIdle
SpecTopology == TopoSpecInit /\ [][TopoNext]_vars

ExecSpecInit == ExecInit /\ TopoIdle /\ GossipIdle /\ MonIdle /\ BridgeIdle /\ CompIdle /\ SetupIdle
SpecExecutor == ExecSpecInit /\ [][ExecNext]_vars

\* WaitForTransferConfirmation called on an executor in any of its states;
\* the timer expires after timeForTransferExecution
ExecStoreSpecInit == ExecStoreInit /\ TopoIdle /\ GossipIdle /\ MonIdle /\ BridgeIdle /\ CompIdle /\ SetupIdle
SpecExecutorStore == ExecStoreSpecInit /\ [][ExecStoreNext]_vars

ExecWaitSpecInit == ExecWaitInit /\ TopoIdle /\ GossipIdle /\ MonIdle /\ BridgeIdle /\ CompIdle /\ SetupIdle
SpecExecutorLive ==
    /\ ExecWaitSpecInit
    /\ [][ExecWaitNext]_vars
    /\ WF_ExWaiting(ExWaitReturn("timer.C"))

\* the retry operations called in any order
ExecRetriesSpecInit == ExecRetriesInit /\ TopoIdle /\ GossipIdle /\ MonIdle /\ BridgeIdle /\ CompIdle /\ SetupIdle
SpecExecutorRetries == ExecRetriesSpecInit /\ [][ExecRetriesNext]_vars

ExecGuardSpecInit == ExecGuardInit /\ TopoIdle /\ GossipIdle /\ MonIdle /\ BridgeIdle /\ CompIdle /\ SetupIdle
SpecExecutorGuards == ExecGuardSpecInit /\ [][ExecGuardNext]_vars

GossipSpecInit == GossipStartedInit /\ TopoIdle /\ ExecIdle /\ MonIdle /\ BridgeIdle /\ CompIdle /\ SetupIdle
SpecGossip == GossipSpecInit /\ [][GossipNext]_vars

\* every relayer is up and no send fails
GossipReliableInit ==
    /\ bc = [b \in Broadcasters |-> [NewBroadcaster(b) EXCEPT !.registered = TRUE]]
    /\ net = {}
    /\ gRes = [ran |-> FALSE]
    /\ gFailures = MaxSendFailures
    /\ gClears = 0
    /\ gAccepted = {}
    /\ gLastSign = [b \in Broadcasters |-> [id \in Identities |-> NoMsg]]
    /\ gMissed = {}
    /\ gMade = [b \in Broadcasters |-> {}]
    /\ gWatch = FALSE
    /\ gBatch = NoBatches

\* the messenger delivers every packet it holds
GossipLiveSpecInit == GossipReliableInit /\ TopoIdle /\ ExecIdle /\ MonIdle /\ BridgeIdle /\ CompIdle /\ SetupIdle
SpecGossipLive ==
    /\ GossipLiveSpecInit
    /\ [][GossipLiveNext]_vars
    /\ WF_vars(\E d \in net : GDeliver(d))

GossipClearSpecInit == GossipStartedInit /\ TopoIdle /\ ExecIdle /\ MonIdle /\ BridgeIdle /\ CompIdle /\ SetupIdle
SpecGossipClear == GossipClearSpecInit /\ [][GossipClearNext]_vars

\* the relayers go through the batches of the source one after the other
GossipBatchSpecInit == GossipBatchInit /\ TopoIdle /\ ExecIdle /\ MonIdle /\ BridgeIdle /\ CompIdle /\ SetupIdle
SpecGossipBatches == GossipBatchSpecInit /\ [][GossipBatchNext]_vars

LateJoinSpecInit == GossipInit /\ TopoIdle /\ ExecIdle /\ MonIdle /\ BridgeIdle /\ CompIdle /\ SetupIdle
SpecLateJoin ==
    /\ LateJoinSpecInit
    /\ [][LateJoinNext]_vars
    /\ WF_vars(\E d \in net : GDeliver(d))

MonSpecInit == MonInit /\ TopoIdle /\ ExecIdle /\ GossipIdle /\ BridgeIdle /\ CompIdle /\ SetupIdle
SpecMonitor == MonSpecInit /\ [][MonNext]_vars

\* the monitors with any number of known peers and signers from elsewhere
MonPeersSpecInit == MonPeersInit /\ TopoIdle /\ ExecIdle /\ GossipIdle /\ BridgeIdle /\ CompIdle /\ SetupIdle
SpecMonitorPeers == MonPeersSpecInit /\ [][MonPeersNext]_vars

\* once the context is cancelled the select of Start finds ctx.Done ready on
\* every turn, and a select takes a ready case
SpecMonitorLive ==
    /\ MonSpecInit
    /\ [][MonNext]_vars
    /\ \A m \in Monitors : WF_vars(LoopDone(m))

BridgeSpecInit == BridgeInit /\ TopoIdle /\ ExecIdle /\ GossipIdle /\ MonIdle /\ CompIdle /\ SetupIdle
SpecBridge == BridgeSpecInit /\ [][BridgeNext]_vars

\* the source to destination half-bridge with this relayer as leader all
\* along and no failing call; the polling handler keeps executing the
\* steps and the peers sign what is proposed
BridgeLiveInit ==
    /\ br = NewHalfBridge
    /\ \E b \in PendingBatches : bChain = NewChains(b, <<>>)
    /\ \E quorum \in 1..(NumPeers + 1), n \in 0..MaxRetries, outcome \in Outcomes :
         bEnv = [dir |-> "ElrondToEth", quorum |-> quorum, leader |-> TRUE,
                 rotations |-> 0, faults |-> 0, maxRetries |-> n, outcome |-> outcome]
    /\ bRes = [ran |-> FALSE]

\* the half-bridge towards Ethereum, entered at its initial step or, as the
\* step tests do, at the propose-set-status step with no batch stored
ProposeStepInit ==
    /\ br \in {NewHalfBridge, [NewHalfBridge EXCEPT !.step = "ProposeSetStatus"]}
    /\ \E b \in PendingBatches : bChain = NewChains(b, <<>>)
    /\ \E quorum \in 1..(NumPeers + 1), leader \in BOOLEAN, outcome \in Outcomes :
         bEnv = [dir |-> "ElrondToEth", quorum |-> quorum, leader |-> leader,
                 rotations |-> MaxRotations, faults |-> MaxBridgeFailures,
                 maxRetries |-> MaxRetries, outcome |-> outcome]
    /\ bRes = [ran |-> FALSE]

ProposeStepSpecInit == ProposeStepInit /\ TopoIdle /\ ExecIdle /\ GossipIdle /\ MonIdle /\ CompIdle /\ SetupIdle
SpecProposeStep == ProposeStepSpecInit /\ [][BridgeNext]_vars

CompSpecInit == CompInit /\ TopoIdle /\ ExecIdle /\ GossipIdle /\ MonIdle /\ BridgeIdle /\ SetupIdle
SpecComponents == CompSpecInit /\ [][CompNext]_vars

SetupSpecInit == SetupInit /\ TopoIdle /\ ExecIdle /\ GossipIdle /\ MonIdle /\ BridgeIdle /\ CompIdle
SpecInvalidSetup == SetupSpecInit /\ [][SetupNext]_vars

BridgeLiveSpecInit == BridgeLiveInit /\ TopoIdle /\ ExecIdle /\ GossipIdle /\ MonIdle /\ CompIdle /\ SetupIdle
SpecBridgeLive ==
    /\ BridgeLiveSpecInit
    /\ [][BridgeLiveNext]_vars
    /\ WF_vars(BridgeStep)
    /\ WF_vars(\E p \in Peers : PeerSigns(p))

(***************************************************************************)
(* Claims.                                                                 *)
(***************************************************************************)
LeadersNow == {r \in Relayers : MyTurnAsLeader(tKeys, tNow, PublicKeyBytes(r))}

\* C3 as stated: at every clock value exactly one whitelisted relayer
\* evaluates MyTurnAsLeader to true.
C3_ExactlyOneLeaderAlways == Cardinality(LeadersNow) = 1

\* C3, amended: while the shared sorted key list is non-empty exactly one
\* whitelisted relayer evaluates MyTurnAsLeader to true, and it is the same
\* relayer whatever the order of the calls; with an empty list none does.
C3_LeaderUniqueness ==
    /\ Len(tKeys) > 0 => Cardinality(LeadersNow) = 1
    /\ Len(tKeys) = 0 => LeadersNow = {}
    /\ \A r \in Relayers : tEval[r] = "leader" => LeadersNow = {r}
    /\ \A r \in Relayers : tEval[r] = "not" => r \notin LeadersNow

\* every relayer has evaluated at a later clock value over a list of several
\* keys, and the one leader is not the first key of the list
C3_Witness ==
    /\ Len(tKeys) >= 2
    /\ tNow >= IntervalForLeaderSeconds
    /\ \A r \in Relayers : tEval[r] # "none"
    /\ \E r \in Relayers : tEval[r] = "leader" /\ tKeys[1] # PublicKeyBytes(r)

VerifyRan ==
    /\ exRes.op = "VerifyLastDepositNonceExecutedOnEthereumBatch"
    /\ exRes.before.batch # NilBatch
    /\ exRes.answer.err = NoErr

\* deposit i of the batch carries nonce last_executed + i
NonceMatches(batch, last, i) == batch.Deposits[i].Nonce = last + i
Contiguous(batch, last) == \A i \in 1..Len(batch.Deposits) : NonceMatches(batch, last, i)
FirstMismatch(batch, last) ==
    CHOOSE i \in 1..Len(batch.Deposits) :
        /\ ~NonceMatches(batch, last, i)
        /\ \A j \in 1..(i - 1) : NonceMatches(batch, last, j)

\* C4: nonce contiguity. Run on a stored batch with last_executed read from
\* the chain, the verification succeeds iff the deposit nonces are
\* last_executed+1, last_executed+2, ... in deposit order; otherwise it
\* fails with the invalid-deposit-nonce error naming the first deposit that
\* does not match; the stored batch is the same afterwards.
C4_NonceContiguity ==
    VerifyRan =>
        LET b == exRes.before.batch
            last == exRes.answer.val
        IN /\ (exRes.res.err = NoErr) <=> Contiguous(b, last)
           /\ ~Contiguous(b, last) =>
                /\ exRes.res.err = ErrInvalidDepositNonce
                /\ exRes.res.val.deposit = FirstMismatch(b, last)
                /\ exRes.res.val.expected = last + FirstMismatch(b, last)
           /\ ex.batch = b
           /\ ex = exRes.before

\* a batch of three deposits whose second deposit breaks the sequence
C4_Witness ==
    /\ VerifyRan
    /\ Len(exRes.before.batch.Deposits) = 3
    /\ exRes.res.err = ErrInvalidDepositNonce
    /\ exRes.res.val.deposit = 2

(***************************************************************************)
(* C5: a message whose sender is not whitelisted, or whose signature does  *)
(* not verify, is rejected: ProcessReceivedMessage returns an error, no    *)
(* holder and no nonce changes, and nothing is sent in return.  No such    *)
(* message is ever held or counted as accepted.                            *)
(***************************************************************************)
C5_BroadcasterRejection ==
    /\ (gRes.ran /\ gRes.bad) => (gRes.err # NoErr /\ gRes.same)
    /\ \A a \in gAccepted : ~BadMessage(a.msg)
    /\ \A b \in Broadcasters :
          /\ \A m \in bc[b].signedMessages \cup bc[b].joinedMessages : ~BadMessage(m)
          /\ \A t \in Topics : bc[b].lastNonce[t][Outsider] = 0
    /\ \A d \in net : d.to # Outsider

\* an outsider's message was just refused by a broadcaster that holds a signature
C5_Witness ==
    /\ gRes.ran
    /\ gRes.from = "outsider"
    /\ gRes.bad
    /\ gRes.err = ErrPeerNotWhitelisted
    /\ \E b \in Broadcasters : bc[b].signedMessages # {}

(***************************************************************************)
(* C6: a well-signed message of a whitelisted sender whose nonce is not    *)
(* above the last one accepted from that sender on that topic is rejected  *)
(* and changes nothing; so is every message that was accepted before and   *)
(* is delivered again.                                                     *)
(***************************************************************************)
C6_ReplayProtection ==
    gRes.ran => /\ gRes.stale => (gRes.err # NoErr /\ gRes.same)
                /\ gRes.again => (gRes.err # NoErr /\ gRes.same)
                /\ (gRes.again /\ ~gRes.bad) => gRes.stale

\* a replay was just refused, of a message that a later one had overwritten
C6_Witness ==
    /\ gRes.ran
    /\ gRes.from = "replay"
    /\ gRes.again
    /\ gRes.err = ErrNonceTooLow
    /\ \E a \in gAccepted :
          /\ a.topic = signTopicName
          /\ a.msg \notin bc[a.to].signedMessages
          /\ \E m \in bc[a.to].signedMessages : m.PublicKeyBytes = a.msg.PublicKeyBytes

(***************************************************************************)
(* C7: the signed messages a broadcaster holds have pairwise different     *)
(* senders, and the one held for a sender is the last sign message that    *)
(* was accepted from that sender.                                          *)
(***************************************************************************)
C7_SignatureSetShape ==
    \A b \in Broadcasters :
        /\ \A m1, m2 \in bc[b].signedMessages :
              BytesEqual(m1.PublicKeyBytes, m2.PublicKeyBytes) => m1 = m2
        /\ \A m \in bc[b].signedMessages : m = gLastSign[b][SenderOf(m)]

\* a broadcaster holds the second signature of a sender whose first it accepted
C7_Witness ==
    \E a \in gAccepted :
        /\ a.topic = signTopicName
        /\ a.msg \notin bc[a.to].signedMessages
        /\ \E m \in bc[a.to].signedMessages :
              /\ m.PublicKeyBytes = a.msg.PublicKeyBytes
              /\ m.Nonce > a.msg.Nonce

(***************************************************************************)
(* C8: among relayers that are all connected, with reliable delivery, once *)
(* every relayer has broadcast its join message and one signature, all of  *)
(* them eventually hold the same signed messages: exactly one from each    *)
(* relayer.                                                                *)
(***************************************************************************)
MadeOn(b, topic) == {x \in gMade[b] : x.topic = topic}

AllJoinedAndSigned ==
    \A b \in Broadcasters :
        /\ bc[b].registered
        /\ MadeOn(b, joinTopicName) # {}
        /\ Cardinality(MadeOn(b, signTopicName)) = 1

SignersHeld(b) == {SenderOf(m) : m \in bc[b].signedMessages}

Converged ==
    \A b \in Broadcasters :
        /\ bc[b].signedMessages = bc[1].signedMessages
        /\ SignersHeld(b) = Broadcasters
        /\ Cardinality(bc[b].signedMessages) = NumBroadcasters
        /\ Cardinality(Signatures(bc[b])) = NumBroadcasters

C8_GossipConvergence == AllJoinedAndSigned ~> Converged

\* everyone joined and signed, and the signatures have arrived everywhere
C8_Witness == AllJoinedAndSigned /\ Converged /\ net = {}

(***************************************************************************)
(* C9: a broadcaster that accepts a join message sends every signed        *)
(* message it holds to the joining peer on the sign topic, the failed      *)
(* sends aside; so a relayer that missed signatures and whose join is on   *)
(* its way to a peer holding them eventually holds them, or later ones of  *)
(* the same senders, and so do the relayers that accepted them before.     *)
(***************************************************************************)
BootstrapReplies ==
    (gRes.ran /\ gRes.err = NoErr /\ gRes.packet.topic = joinTopicName) =>
        gRes.sent = {Packet(gRes.packet.peer, signTopicName, gRes.packet.to, m) :
                        m \in bc[gRes.packet.to].signedMessages \ gRes.failing}

MissedBy(j) == {x.msg : x \in {y \in gMissed : y.to = j}}

JoinOnItsWay(j, p) ==
    \E d \in net :
        /\ d.to = p
        /\ d.topic = joinTopicName
        /\ d.peer = j
        /\ ~BadMessage(d.msg)
        /\ SenderOf(d.msg) = j
        /\ d.msg.Nonce > bc[p].lastNonce[joinTopicName][j]

LateJoiner(j) ==
    /\ bc[j].registered
    /\ MissedBy(j) # {}
    /\ \A m \in MissedBy(j) :
          \E p \in RegisteredPeers \ {j} : m \in bc[p].signedMessages /\ JoinOnItsWay(j, p)
    /\ gFailures = MaxSendFailures

HoldsOrLater(b, m) ==
    \E h \in bc[b].signedMessages :
        BytesEqual(h.PublicKeyBytes, m.PublicKeyBytes) /\ h.Nonce >= m.Nonce

CaughtUp(j) ==
    \A m \in MissedBy(j) :
        /\ HoldsOrLater(j, m)
        /\ \A a \in gAccepted : (a.topic = signTopicName /\ a.msg = m) => HoldsOrLater(a.to, m)

C9_LateJoinerBootstrap ==
    /\ []BootstrapReplies
    /\ \A j \in Broadcasters : LateJoiner(j) ~> CaughtUp(j)

\* a late joiner holds a signature that was broadcast before it was up
C9_Witness ==
    \E j \in Broadcasters :
        /\ MissedBy(j) # {}
        /\ CaughtUp(j)
        /\ MissedBy(j) \subseteq bc[j].signedMessages

(***************************************************************************)
(* C2: for every bridge and every action id, over all relayers and any     *)
(* rotation of the leader, at most one Execute call is issued.             *)
(***************************************************************************)
C2_NoDoubleExecution ==
    \A b \in {"source", "destination"} : \A a \in {TransferActionId, SetStatusActionId} :
        mCalls[b][a] <= 1

\* C1: in each half-bridge the PerformTransfer step is entered only from
\* WaitForQuorumOnTransfer, and only by a step execution in which the quorum
\* query returned true without error; a false answer, an RPC error or an
\* exhausted retry budget never leads to PerformTransfer.  So whenever the
\* half-bridge is at PerformTransfer the destination holds a quorum of signers.
C1_QuorumSoundness ==
    /\ (bRes.ran /\ bRes.next = "PerformTransfer")
         => /\ bRes.step = "WaitForQuorumOnTransfer"
            /\ bRes.quorum = Answer(TRUE, NoErr)
    /\ (bRes.ran /\ bRes.step = "WaitForQuorumOnTransfer" /\ bRes.quorum # Answer(TRUE, NoErr))
         => bRes.next \in {InitialStep, "WaitForQuorumOnTransfer"}
    /\ br.step = "PerformTransfer" => QuorumOf(bChain[Dst][Id].transfer)

\* the half-bridge has just entered PerformTransfer on Elrond with a quorum
\* of two signers, after an earlier visit had to give up
C1_Witness ==
    /\ bRes.ran /\ bRes.step = "WaitForQuorumOnTransfer" /\ bRes.next = "PerformTransfer"
    /\ bEnv.dir = "EthToElrond" /\ bEnv.quorum = 2
    /\ br.fetches >= 2

\* the source to destination half-bridge is at the initial step with a
\* pending batch whose nonces verify, nothing fetched yet
HappyStart ==
    /\ br.step = InitialStep /\ br.fetches = 0
    /\ bChain.pending # NilBatch
    /\ Verifies(bChain.pending, bChain)

\* this relayer proposed, signed and executed the transfer on the destination
\* and the set-status on the source, and is back at the initial step
HappyEnd ==
    /\ br.step = InitialStep /\ br.fetches >= 2 /\ br.e.batch = NilBatch
    /\ bChain.Ethereum[1].transfer.proposers = {Me}
    /\ Me \in bChain.Ethereum[1].transfer.signers
    /\ bChain.Ethereum[1].transfer.performers = {Me}
    /\ bChain.Elrond[1].setStatus.proposers = {Me}
    /\ Me \in bChain.Elrond[1].setStatus.signers
    /\ bChain.Elrond[1].setStatus.performers = {Me}
    /\ bChain.Elrond[1].setStatus.statuses = bEnv.outcome
    /\ bChain.pending = NilBatch
    /\ bChain.Elrond[1].transfer = NewAction
    /\ bChain.Ethereum[1].setStatus = NewAction

\* C10: with a pending source batch whose deposit nonces verify, this relayer
\* as leader and quorum reachable, the source to destination half-bridge
\* eventually proposes, signs and executes the transfer on the destination,
\* then proposes, signs and executes the set-status on the source, and is
\* back at the initial step fetching a second time; no transfer was ever
\* proposed on the source and no set-status on the destination.
C10_HappyPath ==
    /\ HappyStart ~> HappyEnd
    /\ [](\A id \in BatchIDs : /\ bChain.Elrond[id].transfer = NewAction
                                /\ bChain.Ethereum[id].setStatus = NewAction)

\* the happy end is reached with a quorum that needed a peer's signature
C10_Witness == HappyEnd /\ bEnv.quorum = NumPeers + 1

AllRejected(statuses) ==
    /\ Len(statuses) > 0
    /\ \A i \in 1..Len(statuses) : statuses[i] = "Rejected"
CallsOn(chain) == {c \in bRes.calls : c[1] = chain}
ProposeTransferFailed ==
    /\ bRes.ran /\ bRes.step = "ProposeTransfer"
    /\ <<Dst, "ProposeTransfer">> \in bRes.calls /\ bRes.errs[2] # NoErr

\* C11: when the destination's ProposeTransfer returns an error, the
\* half-bridge that reports statuses goes from the propose step straight to
\* proposing set-status on the source with every deposit Rejected; until it
\* is back at the initial step it makes no call on the destination (no sign,
\* no quorum poll, no execute, no read of the statuses), what it proposes on
\* the source is Rejected for every deposit, and the step that executes the
\* set-status returns to the initial step.
C11_ProposeFailure ==
    /\ (ProposeTransferFailed /\ ReportsStatus(bEnv.dir))
         => /\ bRes.next = "ProposeSetStatus"
            /\ br.path = "proposeFailed"
            /\ Len(br.statuses) = Len(br.e.batch.Deposits)
            /\ AllRejected(br.statuses)
    /\ br.path = "proposeFailed"
         => /\ br.step \in SetStatusSteps
            /\ AllRejected(br.statuses)
            /\ (bRes.ran /\ ~ProposeTransferFailed) => CallsOn(Dst) = {}
            /\ (bRes.ran /\ <<Src, "ProposeSetStatus">> \in bRes.calls
                  /\ bRes.next = "SignProposedSetStatus")
                 => AllRejected(bChain[Src][Id].setStatus.statuses)
    /\ (bRes.ran /\ <<Src, "PerformSetStatus">> \in bRes.calls)
         => bRes.next = InitialStep /\ br.e.batch = NilBatch

\* after a failed propose this relayer proposed, signed and executed the
\* set-status with Rejected statuses on the source and is back at the
\* initial step; the destination was never proposed to, signed or executed
C11_Witness ==
    /\ bRes.ran /\ bRes.step = "PerformSetStatus" /\ bRes.next = InitialStep
    /\ <<Src, "PerformSetStatus">> \in bRes.calls
    /\ bChain[Src][1].setStatus.proposers = {Me}
    /\ bChain[Src][1].setStatus.performers = {Me}
    /\ Me \in bChain[Src][1].setStatus.signers
    /\ AllRejected(bChain[Src][1].setStatus.statuses)
    /\ verifyDepositNonces(bRes.stored, 0).err = NoErr
    /\ bChain[Dst][1].transfer = NewAction

WellFormedStatuses(statuses, batch) ==
    /\ Len(statuses) = Len(batch.Deposits)
    /\ \A i \in 1..Len(statuses) : statuses[i] \in StatusValues
ProposedSetStatus ==
    /\ bRes.ran /\ bRes.step = "ProposeSetStatus"
    /\ <<Src, "ProposeSetStatus">> \in bRes.calls
    /\ bRes.next = "SignProposedSetStatus"

\* C12: the status vector this relayer proposes on the source for a batch
\* whose transfer it followed to the end has one entry per deposit, each
\* Executed or Rejected, and is position by position the vector the
\* destination returns for that batch id; a mixed vector passes unchanged.
C12_StatusFidelity ==
    /\ (bRes.ran /\ <<Dst, "GetBatchStatuses">> \in bRes.calls
          /\ bRes.next # InitialStep)
         => /\ br.statuses = bChain[Dst][Id].transfer.statuses
            /\ WellFormedStatuses(br.statuses, br.e.batch)
    /\ (br.path = "none" /\ br.step \in SetStatusSteps /\ br.statuses # <<>>)
         => br.statuses = GetTransactionsStatuses(bChain, Id, NoErr).val
    /\ (br.path = "none" /\ ProposedSetStatus)
         => /\ bChain[Src][Id].setStatus.statuses
                 = GetTransactionsStatuses(bChain, Id, NoErr).val
            /\ bChain[Src][Id].setStatus.statuses = bEnv.outcome
            /\ WellFormedStatuses(bChain[Src][Id].setStatus.statuses, br.e.batch)

\* this relayer read the mixed vector from the destination and proposed it
\* on the source
C12_Witness ==
    /\ br.path = "none" /\ ProposedSetStatus
    /\ <<Dst, "GetBatchStatuses">> \in bRes.calls
    /\ bChain[Dst][1].transfer.statuses = <<"Rejected", "Executed">>
    /\ bChain[Src][1].setStatus.statuses = <<"Rejected", "Executed">>
    /\ bChain[Src][1].setStatus.proposers = {Me}

\* some deposit of the batch does not carry the nonce that follows the last
\* executed one by its position
NonceGap(batch, lastNonce) ==
    /\ batch # NilBatch
    /\ \E i \in 1..Len(batch.Deposits) : batch.Deposits[i].Nonce # lastNonce + i
FetchedBatch ==
    bRes.ran /\ bRes.step = "GetPendingBatch" /\ bRes.stored # NilBatch

\* C13: when the deposit nonces of a freshly fetched batch do not follow the
\* last executed nonce, the half-bridge never goes to proposing the transfer
\* for it: where statuses are reported it goes to the set-status steps on the
\* source with every deposit Rejected and makes no call on the destination
\* until it is back at the initial step; a batch whose nonces do follow goes
\* to proposing the transfer.
C13_NonceGapRouting ==
    /\ (FetchedBatch /\ NonceGap(bRes.stored, bChain.lastExecuted))
         => /\ bRes.next # "ProposeTransfer"
            /\ ReportsStatus(bEnv.dir)
                 => /\ bRes.next = "ProposeSetStatus"
                    /\ br.path = "nonceGap"
                    /\ br.e.batch = bRes.stored
                    /\ Len(br.statuses) = Len(bRes.stored.Deposits)
                    /\ AllRejected(br.statuses)
    /\ (FetchedBatch /\ ~NonceGap(bRes.stored, bChain.lastExecuted))
         => bRes.next = "ProposeTransfer"
    /\ br.path = "nonceGap"
         => /\ br.step \in SetStatusSteps
            /\ NonceGap(br.e.batch, bChain.lastExecuted)
            /\ AllRejected(br.statuses)
            /\ bRes.ran => CallsOn(Dst) = {}
            /\ ProposedSetStatus => AllRejected(bChain[Src][Id].setStatus.statuses)
    /\ (bRes.ran /\ <<Dst, "ProposeTransfer">> \in bRes.calls)
         => ~NonceGap(br.e.batch, bChain.lastExecuted)

\* the batch with nonces 1 and 3 was fetched with nothing executed before,
\* and this relayer proposed the set-status with Rejected for both deposits
C13_Witness ==
    /\ br.path = "nonceGap" /\ ProposedSetStatus
    /\ br.e.batch.Deposits = <<[Nonce |-> 1], [Nonce |-> 3]>>
    /\ bChain.lastExecuted = 0
    /\ bChain[Src][1].setStatus.statuses = <<"Rejected", "Rejected">>
    /\ bChain[Src][1].setStatus.proposers = {Me}
    /\ bChain[Dst][1].transfer.proposers = {}

SignIssued == bRes.ran /\ \E c \in bRes.calls : c[2] = "Sign"

\* C14: a step issues Sign for an action only if this relayer's signature
\* for that action is not yet on the chain, so that re-entering a signing
\* step after a reset never submits the signature again.
C14_SignAtMostOnce == SignIssued => ~bRes.signed

\* the wait-for-quorum step of the transfer polled the destination and was
\* answered that the quorum is not reached
QuorumNotReached ==
    /\ bRes.ran /\ bRes.step = "WaitForQuorumOnTransfer"
    /\ <<Dst, "IsQuorumReached">> \in bRes.calls
    /\ bRes.quorum = Answer(FALSE, NoErr)

\* C18: with a maximum of n retries, a half-bridge that keeps being answered
\* "quorum not reached" stays in WaitForQuorumOnTransfer for at most n
\* consecutive executions and the execution that makes poll n + 1 returns to
\* the initial step; with n = 0 the first poll is the only one.
C18_BoundedWaitForQuorum ==
    /\ br.step = "WaitForQuorumOnTransfer" => br.polls <= bEnv.maxRetries
    /\ QuorumNotReached
         => /\ bRes.polls <= bEnv.maxRetries + 1
            /\ bRes.next = (IF bRes.polls = bEnv.maxRetries + 1 THEN InitialStep
                            ELSE "WaitForQuorumOnTransfer")
    /\ (QuorumNotReached /\ bEnv.maxRetries = 0)
         => bRes.polls = 1 /\ bRes.next = InitialStep

\* with n = 1 the second consecutive poll that found no quorum sent the
\* half-bridge back to the initial step
C18_Witness ==
    /\ QuorumNotReached /\ bEnv.maxRetries = 1
    /\ bRes.polls = 2 /\ bRes.next = InitialStep
    /\ br.step = InitialStep /\ br.e.batch = NilBatch

\* the batch `id` reached a terminal outcome: its status is reported on the
\* source (executed or rejected), or, where no status is reported, its
\* transfer is executed
Terminal(id) ==
    /\ id \in bChain.settled
    /\ IF ReportsStatus(bEnv.dir)
       THEN /\ Performed(bChain[Src][id].setStatus)
            /\ \/ Performed(bChain[Dst][id].transfer)
               \/ AllRejected(bChain[Src][id].setStatus.statuses)
       ELSE Performed(bChain[Dst][id].transfer)
\* the get-pending step stored a batch other than the one stored before it
BatchReplaced ==
    /\ bRes.ran /\ bRes.step = "GetPendingBatch" /\ bRes.stored # NilBatch
    /\ bRes.previous # 0 /\ bRes.previous # bRes.stored.ID

Writes == {"ProposeTransfer", "ProposeSetStatus", "Execute"}

\* C15: a propose-transfer, propose-set-status or execute call is issued by
\* a Monitor only in a step in which that relayer is the leader; a relayer
\* that is not the leader passes the step without the call.
C15_LeaderOnlyWrites == mRes.op \in Writes => mRes.leader

\* the leader has just issued Execute for the transfer, the only Execute so
\* far, while another relayer has passed its own execute step without it
C15_Witness ==
    /\ mRes.op = "Execute" /\ mRes.leader /\ mRes.bridge = "destination"
    /\ mCalls["destination"][TransferActionId] = 1
    /\ \E m \in Monitors \ {mRes.m} : mon[m].ch = <<"WaitForExecute">>

\* C16: for a deposit whose transfer proposal is visible on the destination
\* no relayer issues another propose transaction, also when the leader
\* changes while the deposit is in progress, and at most one Execute of the
\* transfer is issued.
C16_NoDuplicatePropose ==
    /\ mRes.op = "ProposeTransfer" => ~mRes.proposed
    /\ mCalls["destination"][TransferActionId] <= 1

\* C17: once a Monitor's Start has returned, on ctx.Done or on a Stop sent
\* by a step that saw the context cancelled, that Monitor issues no propose,
\* sign or execute call.
C17_NoCallAfterCancellation ==
    mRes.op \in Writes \cup {"Sign"} => ~mRes.returned

\* getPendingTransaction has just run and the source had no pending deposit
EmptyFetch == mRes.op = "GetPendingDepositTransaction" /\ mRes.empty

Refetched ==
    /\ bRes.ran /\ bRes.step = "GetPendingBatch" /\ bRes.errs[1] = NoErr
    /\ bRes.previous # 0 /\ ~Terminal(bRes.previous)

\* C21: a fetch that follows a reset made before the batch was finally
\* executed or rejected stores the same batch again, same id and same
\* deposits, every time until that outcome is reached; every fetch that
\* succeeds stores the batch the source reports as pending.
C21_RefetchSameBatch ==
    /\ (bRes.ran /\ bRes.step = "GetPendingBatch" /\ bRes.errs[1] = NoErr)
         => bRes.stored = bChain.pending
    /\ Refetched
         => /\ bRes.stored # NilBatch
            /\ bRes.stored.ID = bRes.previous
            /\ bRes.stored.Deposits = bRes.previousBatch.Deposits
            /\ br.lastBatch = bRes.previousBatch

\* the batch was fetched again after a reset, its transfer proposed and
\* signed but not executed, and it is the batch of the first fetch
C21_Witness ==
    /\ Refetched /\ br.fetches >= 2 /\ bRes.stored = bRes.previousBatch
    /\ bRes.stored.ID = 1 /\ Len(bRes.stored.Deposits) = 2
    /\ Proposed(bChain[Dst][1].transfer) /\ Me \in bChain[Dst][1].transfer.signers
    /\ ~Performed(bChain[Dst][1].transfer)

(***************************************************************************)
(* C22. Close stops the join loop: once Close() of the bridge components  *)
(* has returned, the context of the loop that Start() spawned is          *)
(* cancelled, so that the loop returns, and no BroadcastJoinTopic is      *)
(* issued any more, whatever the interleaving of Close() with the loop's  *)
(* goroutine.                                                              *)
(***************************************************************************)
CloseReturned == cp.close = "returned"

C22_CloseStopsJoinLoop ==
    CloseReturned
      => /\ cp.late = 0
         /\ cp.loop \in {"spawned", "waiting"} => cp.ctxDone

(***************************************************************************)
(* C23. Invalid bridge setup (S6): with a token declared native on both   *)
(* chains, a relayer that got the invalid-setup error at propose time is  *)
(* back at its initial step with the batch marked rejected, so it does    *)
(* not meet the error for that batch again, and the receiver's balance    *)
(* stays 0.                                                                *)
(***************************************************************************)
InvalidSetupMet(r) == su.logged[r] >= 1

C23_InvalidSetupRejects ==
    /\ su.balance = 0
    /\ \A r \in Relayers :
         InvalidSetupMet(r)
           => /\ su.logged[r] = 1
              /\ su.step[r] = "GetPendingBatch" => su.batch = "rejected"

(***************************************************************************)
(* C24. MyTurnAsLeader returns true only if the relayer's own address     *)
(* bytes equal the element of the current sorted public-key list that is  *)
(* selected for the current time window; it returns false, at every clock *)
(* value, when the list is empty or does not contain the own address.     *)
(***************************************************************************)
SelectedIndex == randomInt(tNow \div IntervalForLeaderSeconds, Len(tKeys)) + 1
Evaluated(r) == tEval[r] # "none"

C24_LeaderIsSelectedKey ==
    \A r \in Relayers :
        /\ tEval[r] = "leader"
             => /\ Len(tKeys) > 0
                /\ tKeys[SelectedIndex] = PublicKeyBytes(r)
        /\ (Evaluated(r) /\ (Len(tKeys) = 0 \/ PublicKeyBytes(r) \notin ListKeys(tKeys)))
             => tEval[r] = "not"

\* in a later time window, over a list of several keys, the relayer whose
\* key is selected answered true, that key is not the first of the list, and
\* a relayer whose key is not in the list answered false
C24_Witness ==
    /\ Len(tKeys) >= 2
    /\ tNow >= IntervalForLeaderSeconds
    /\ SelectedIndex > 1
    /\ \E r \in Relayers : tEval[r] = "leader" /\ tKeys[SelectedIndex] = PublicKeyBytes(r)
    /\ \E r \in Relayers : tEval[r] = "not" /\ PublicKeyBytes(r) \notin ListKeys(tKeys)

(***************************************************************************)
(* C25. Joined-key list: SortedPublicKeys() of a broadcaster is in        *)
(* ascending byte order, without duplicates, and holds exactly the keys   *)
(* of the whitelisted relayers whose join message the broadcaster has     *)
(* accepted, its own among them once its own join came round; a           *)
(* broadcaster that never broadcast a join is in no list, its own         *)
(* included.                                                               *)
(***************************************************************************)
JoinsAcceptedBy(b) ==
    {a.msg.PublicKeyBytes : a \in {x \in gAccepted : x.to = b /\ x.topic = joinTopicName}}
NeverJoined(q) == MadeOn(q, joinTopicName) = {}

C25_JoinedKeyList ==
    \A b \in Broadcasters :
        LET keys == SortedPublicKeys(bc[b])
        IN /\ IsSortedBytes(keys)
           /\ Len(keys) = Cardinality(ListKeys(keys))
           /\ ListKeys(keys) = JoinsAcceptedBy(b)
           /\ \A k \in ListKeys(keys) : IsWhitelisted(k)
           /\ \A q \in Broadcasters : NeverJoined(q) => PublicKeyBytes(q) \notin ListKeys(keys)

\* a broadcaster lists its own key and another one, the other one first,
\* while the other broadcaster, whose own join has not come round, lists
\* fewer keys
C25_Witness ==
    \E b, q \in Broadcasters :
        /\ b # q
        /\ SortedPublicKeys(bc[b]) = <<PublicKeyBytes(q), PublicKeyBytes(b)>>
        /\ Len(SortedPublicKeys(bc[q])) < 2

(***************************************************************************)
(* C26. ClearSignatures: right after ClearSignatures() the broadcaster's  *)
(* Signatures() is empty and its SortedPublicKeys() is what it was before *)
(* the call; a sign message accepted after a clear is stored like any     *)
(* other.                                                                  *)
(***************************************************************************)
JustCleared == "cleared" \in DOMAIN gRes
SignAccepted == gRes.ran /\ gRes.err = NoErr /\ gRes.packet.topic = signTopicName

C26_ClearSignatures ==
    /\ JustCleared
         => /\ Signatures(bc[gRes.cleared]) = {}
            /\ SortedPublicKeys(bc[gRes.cleared]) = gRes.keys
    /\ (SignAccepted /\ gClears > 0)
         => /\ gRes.packet.msg \in bc[gRes.packet.to].signedMessages
            /\ gRes.packet.msg.Payload \in Signatures(bc[gRes.packet.to])

\* a broadcaster that lists a key has just stored a signature, and a
\* signature of another sender that it accepted before is gone without
\* one of that sender having taken its place: it was cleared
C26_Witness ==
    /\ SignAccepted
    /\ gClears > 0
    /\ Len(SortedPublicKeys(bc[gRes.packet.to])) >= 1
    /\ gRes.packet.msg.Payload \in Signatures(bc[gRes.packet.to])
    /\ \E a \in gAccepted :
          /\ a.to = gRes.packet.to
          /\ a.topic = signTopicName
          /\ \A m \in bc[a.to].signedMessages : m.PublicKeyBytes # a.msg.PublicKeyBytes

\* the list of a broadcaster that has just cleared is not empty
C26_WitnessCleared == JustCleared /\ Len(gRes.keys) >= 1 /\ Signatures(bc[gRes.cleared]) = {}

(***************************************************************************)
(* C27. WaitForTransferConfirmation always returns: a call that waits in  *)
(* the select returns, and it returns on the expiry of the timer or on    *)
(* the cancellation of the context, whichever comes first; from the call  *)
(* to the return no chain call is made and no field of the executor       *)
(* changes.                                                                *)
(***************************************************************************)
ExWaitReturned ==
    /\ exRes.op = "WaitForTransferConfirmation"
    /\ exRes.res.val \in WaitEvents

C27_WaitAlwaysReturns ==
    /\ [](exRes.op = "WaitForTransferConfirmation"
            => /\ ExWaiting \/ ExWaitReturned
               /\ exRes.res.calls = <<>>
               /\ exRes.res.err = NoErr
               /\ ex = exRes.before
               /\ exRes.res.executor = exRes.before)
    /\ (ExWaiting ~> ExWaitReturned)

\* a wait has returned on the cancellation of the context, the executor
\* holding a batch with deposits
C27_Witness ==
    /\ ExWaitReturned
    /\ exRes.res.val = "ctx.Done"
    /\ ex.batch # NilBatch
    /\ ex.batch.Deposits # <<>>

(***************************************************************************)
(* C28. Store batch: StoreBatchFromElrond(nil) returns the nil-batch      *)
(* error and leaves the stored batch and every other field of the         *)
(* executor as they were; with a batch it returns no error, GetStoredBatch *)
(* returns exactly that batch afterwards, and the other fields are as     *)
(* they were.                                                              *)
(***************************************************************************)
StoreCalled == exRes.op = "StoreBatchFromElrond"
OtherFieldsKept(e, before) == [e EXCEPT !.batch = before.batch] = before

C28_StoreBatch ==
    StoreCalled
      => /\ exRes.res.calls = <<>>
         /\ IF exRes.answer.val = NilBatch
            THEN /\ exRes.res.err = ErrNilBatch
                 /\ ex = exRes.before
            ELSE /\ exRes.res.err = NoErr
                 /\ GetStoredBatch(ex) = exRes.answer.val
                 /\ OtherFieldsKept(ex, exRes.before)

\* nil was just refused by an executor that keeps the batch of deposits it
\* stored before, its other fields set
C28_Witness ==
    /\ StoreCalled
    /\ exRes.answer.val = NilBatch
    /\ exRes.res.err = ErrNilBatch
    /\ GetStoredBatch(ex) # NilBatch
    /\ Len(GetStoredBatch(ex).Deposits) = MaxDeposits
    /\ ex.actionID # InvalidActionID

(***************************************************************************)
(* C29. Skip when already proposed: a propose step (of the transfer or of *)
(* the set-status) that is answered that the action is proposed issues no *)
(* propose transaction, leader or not, and goes to the step that signs    *)
(* the action.                                                             *)
(***************************************************************************)
ProposeSteps == {"ProposeTransfer", "ProposeSetStatus"}
SigningStepOf(step) ==
    IF step = "ProposeTransfer" THEN "SignProposedTransfer" ELSE "SignProposedSetStatus"
ProposeCalls == {<<Dst, "ProposeTransfer">>, <<Src, "ProposeSetStatus">>}

WasProposedCalls == {<<Dst, "WasTransferProposed">>, <<Src, "WasSetStatusProposed">>}

AnsweredProposed ==
    /\ bRes.ran
    /\ bRes.step \in ProposeSteps
    /\ bRes.calls \cap WasProposedCalls # {}
    /\ bRes.errs[1] = NoErr
    /\ bRes.proposed

C29_SkipWhenProposed ==
    AnsweredProposed
      => /\ bRes.calls \cap ProposeCalls = {}
         /\ bRes.next = SigningStepOf(bRes.step)
         /\ br.step = SigningStepOf(bRes.step)

\* the leader has just skipped the proposal of a set-status that a peer made
C29_Witness ==
    /\ AnsweredProposed
    /\ bRes.step = "ProposeSetStatus"
    /\ bRes.leader
    /\ br.step = "SignProposedSetStatus"
    /\ Me \notin bChain[Src][br.e.batch.ID].setStatus.proposers

\* a relayer that does not lead has just skipped the proposal of a transfer
C29_WitnessTransfer ==
    /\ AnsweredProposed
    /\ bRes.step = "ProposeTransfer"
    /\ ~bRes.leader
    /\ br.step = "SignProposedTransfer"

(***************************************************************************)
(* C30. No advance without a proposal: a propose step that is answered    *)
(* that the action is not proposed, run by a relayer that does not lead,  *)
(* makes no propose call and stays where it is; and a half-bridge that is *)
(* at a signing, quorum or execute step of an action finds that action    *)
(* proposed on its chain: it was seen there or this relayer submitted it  *)
(* as leader.                                                              *)
(***************************************************************************)
AnsweredNotProposed ==
    /\ bRes.ran
    /\ bRes.step \in ProposeSteps
    /\ bRes.calls \cap WasProposedCalls # {}
    /\ bRes.errs[1] = NoErr
    /\ ~bRes.proposed

AfterProposeTransfer == TransferSteps \ {"ProposeTransfer"}
AfterProposeSetStatus == SetStatusSteps \ {"ProposeSetStatus"}

C30_NoAdvanceWithoutProposal ==
    /\ (AnsweredNotProposed /\ ~bRes.leader)
         => /\ bRes.next = bRes.step
            /\ br.step = bRes.step
            /\ bRes.calls \cap ProposeCalls = {}
    /\ (AnsweredNotProposed /\ bRes.next \notin ProposeSteps /\ bRes.next # InitialStep)
         => /\ bRes.leader
            /\ bRes.calls \cap ProposeCalls # {}
            /\ bRes.errs[2] = NoErr
    /\ br.step \in AfterProposeTransfer => Proposed(bChain[Dst][Id].transfer)
    /\ br.step \in AfterProposeSetStatus => Proposed(bChain[Src][Id].setStatus)

\* a relayer that does not lead has just stayed in the propose step of the
\* transfer: nothing is proposed, signed or executed on the destination
C30_Witness ==
    /\ AnsweredNotProposed
    /\ ~bRes.leader
    /\ bRes.step = "ProposeTransfer"
    /\ br.step = "ProposeTransfer"
    /\ ~Proposed(bChain[Dst][Id].transfer)
    /\ bChain[Dst][Id].transfer.signers = {}
    /\ ~Performed(bChain[Dst][Id].transfer)

(***************************************************************************)
(* C31: propose-step errors reset the half-bridge.  A propose-set-status   *)
(* step that finds no stored batch, or whose was-proposed query fails, or  *)
(* whose propose call fails, returns the initial step and never the        *)
(* signing step; without a batch it makes no call at all.                  *)
(***************************************************************************)
RanProposeSetStatus == bRes.ran /\ bRes.step = "ProposeSetStatus"
NoBatchStored == RanProposeSetStatus /\ bRes.stored = NilBatch
WasProposedQueryFailed ==
    /\ RanProposeSetStatus
    /\ <<Src, "WasSetStatusProposed">> \in bRes.calls
    /\ <<Src, "ProposeSetStatus">> \notin bRes.calls
    /\ bRes.errs[1] # NoErr
ProposeCallFailed ==
    /\ RanProposeSetStatus
    /\ <<Src, "ProposeSetStatus">> \in bRes.calls
    /\ bRes.errs[2] # NoErr

C31_ProposeErrorsReset ==
    /\ NoBatchStored => bRes.calls = {}
    /\ (NoBatchStored \/ WasProposedQueryFailed \/ ProposeCallFailed) =>
          /\ bRes.next = InitialStep
          /\ br.step = InitialStep
          /\ br.step # "SignProposedSetStatus"
          /\ br.e.batch = NilBatch

\* the leader's propose call failed
C31_Witness == ProposeCallFailed /\ bRes.leader /\ br.step = InitialStep

\* the step ran without a stored batch
C31_WitnessNoBatch == NoBatchStored /\ br.step = InitialStep

\* the was-proposed query failed
C31_WitnessQuery == WasProposedQueryFailed /\ br.step = InitialStep

(***************************************************************************)
(* C32: the retry counters.  ProcessMaxRetriesOnElrond (OnEthereum)        *)
(* answers false and adds one to that chain's counter while the counter   *)
(* is below the client's maximum, and answers true and leaves the counter *)
(* as it is once the maximum is reached; the counter never exceeds the    *)
(* maximum; ResetRetriesCountOnElrond (OnEthereum) sets that counter to 0; *)
(* each operation leaves every other field of the executor alone.          *)
(***************************************************************************)
ProcessedMaxRetriesOn(client) == exRes.op = "ProcessMaxRetriesOn" \o client
ResetRetriesOn(client) == exRes.op = "ResetRetriesCountOn" \o client

C32_RetryCounter ==
    \A client \in Clients :
       LET before == RetriesOn(exRes.before, client)
           maximum == exChain.maxRetries[client]
       IN /\ RetriesOn(ex, client) <= maximum
          /\ ProcessedMaxRetriesOn(client) =>
                /\ exRes.res.val = ~(before < maximum)
                /\ ex = WithRetriesOn(exRes.before, client,
                                      IF before < maximum THEN before + 1 ELSE before)
          /\ ResetRetriesOn(client) => ex = WithRetriesOn(exRes.before, client, 0)

\* the budget is found exhausted after retries were counted, the other
\* chain's counter being in use as well
C32_Witness ==
    /\ ProcessedMaxRetriesOn("Elrond")
    /\ exRes.res.val = TRUE
    /\ ex.retriesOnElrond = MaxNumberOfRetries
    /\ ex.retriesOnEthereum = 1

\* a reset of one counter while the other one is not zero
C32_WitnessReset ==
    /\ ResetRetriesOn("Ethereum")
    /\ exRes.before.retriesOnEthereum > 0
    /\ ex.retriesOnElrond > 0

(***************************************************************************)
(* C33: the retry budget is restored.  After a step that went on to       *)
(* another step than the initial one both retry counters are zero; the    *)
(* half-bridge enters a wait-for-quorum step with that chain's counter at *)
(* zero, also when the budget was exhausted on the visit before; so the   *)
(* first poll of a visit finds the budget exhausted only when the         *)
(* client's maximum is zero.                                               *)
(***************************************************************************)
WaitStepOn(step) ==
    IF step = "WaitForQuorumOnTransfer" THEN Dst
    ELSE IF step = "WaitForQuorumOnSetStatus" THEN Src
    ELSE "none"
WaitSteps == {"WaitForQuorumOnTransfer", "WaitForQuorumOnSetStatus"}
WentOn == bRes.ran /\ bRes.next # bRes.step /\ bRes.next # InitialStep
Entered(step) == bRes.ran /\ bRes.next = step /\ bRes.step # step
\* the poll found the quorum not reached and the budget used up
Exhausted ==
    /\ bRes.ran /\ bRes.step \in WaitSteps /\ bRes.next = InitialStep
    /\ bRes.quorum = Answer(FALSE, NoErr)

C33_RetryBudgetRestored ==
    /\ WentOn => \A c \in Clients : RetriesOn(br.e, c) = 0
    /\ \A step \in WaitSteps : Entered(step) => RetriesOn(br.e, WaitStepOn(step)) = 0
    /\ Exhausted =>
          /\ bRes.retries[WaitStepOn(bRes.step)] = bEnv.maxRetries
          /\ bRes.step = "WaitForQuorumOnTransfer" => bRes.polls = bEnv.maxRetries + 1

\* the half-bridge left the initial step with a counter that was still at
\* its maximum from the visit on which the budget was exhausted
C33_Witness ==
    /\ bRes.ran /\ bRes.step = InitialStep /\ bRes.next = "ProposeTransfer"
    /\ bRes.retries[Dst] = bEnv.maxRetries
    /\ bEnv.maxRetries > 0
    /\ RetriesOn(br.e, Dst) = 0

\* the wait for the quorum on the transfer is entered for the second batch
C33_WitnessLaterBatch ==
    /\ Entered("WaitForQuorumOnTransfer")
    /\ br.e.batch = NextBatch
    /\ RetriesOn(br.e, Dst) = 0

(***************************************************************************)
(* C34: signatures are cleared per batch.  Whenever a relayer evaluates    *)
(* the quorum of the batch it works on, every signature in its store was  *)
(* made for that batch: none gathered for an earlier batch is present.    *)
(***************************************************************************)
QuorumEvaluated == "evaluated" \in DOMAIN gRes

C34_SignaturesClearedPerBatch ==
    QuorumEvaluated => \A signature \in gRes.held : BatchOf(signature) = gRes.batch

\* each relayer clears its store when it starts a batch, before it signs
\* that batch itself: it holds no signature of its own for a batch it has
\* not started
C34_OwnSignatureAfterClear ==
    \A b \in Broadcasters :
       \A signature \in Signatures(bc[b]) :
          signature[2] = b => BatchOf(signature) <= gBatch.at[b]

(***************************************************************************)
(* C35: the steps of one Monitor never overlap.  At most one step         *)
(* goroutine of a monitor is in flight, the state channel holds at most   *)
(* one state, and never both: a step that sends its next state finds the  *)
(* channel empty, and Start takes a state only when no step is running.   *)
(***************************************************************************)
StepInFlight(m) == mon[m].step # "none"

C35_StepsNeverOverlap ==
    \A m \in Monitors :
       /\ mon[m].inFlight <= 1
       /\ StepInFlight(m) <=> mon[m].inFlight = 1
       /\ Len(mon[m].ch) <= 1
       /\ ~(StepInFlight(m) /\ mon[m].ch # <<>>)
       /\ mon[m].loop = "created" => ~StepInFlight(m) /\ mon[m].ch = <<>>

\* one monitor runs a late step with its channel empty while another one
\* has its next state waiting in the channel
C35_Witness ==
    \E m, o \in Monitors :
       /\ m # o
       /\ mon[m].step = "WaitForExecute" /\ mon[m].ch = <<>> /\ mon[m].inFlight = 1
       /\ mon[o].ch = <<"WaitForSignatures">> /\ ~StepInFlight(o)

(***************************************************************************)
(* C36: Monitor termination.  A waiting step whose select takes ctx.Done  *)
(* sends Stop and nothing else, and Stop is sent only after the           *)
(* cancellation; once Start has returned no step is started and Start     *)
(* stays returned; and a Start that is in its loop when the context is    *)
(* cancelled eventually returns.                                           *)
(***************************************************************************)
TimerSteps ==
    {"GetPendingTransaction", "WaitForTransferProposal", "WaitForSignatures",
     "WaitForExecute", "WaitForSetStatusProposal"}
CancellationWon ==
    \/ mRes.op = "ctx.Done"
    \/ mRes.op = "GetPendingDepositTransaction" /\ mRes.empty /\ mRes.next = "Stop"
StoppedStep == IF mRes.op = "ctx.Done" THEN mRes.step ELSE "GetPendingTransaction"
InLoop(m) == mon[m].loop = "select"
Returned(m) == mon[m].loop = "returned"

C36_StopOnCancellation ==
    /\ CancellationWon =>
          /\ mRes.cancelled
          /\ StoppedStep \in TimerSteps
          /\ mon[mRes.m].ch = <<"Stop">>
          /\ ~StepInFlight(mRes.m)
    /\ \A m \in Monitors : mon[m].ch = <<"Stop">> => mCtx

C36_NoDispatchAfterReturn ==
    \A m \in Monitors :
       Returned(m) => /\ Returned(m)'
                      /\ mon'[m].step \in {mon[m].step, "none"}
                      /\ mon'[m].inFlight <= mon[m].inFlight

C36_MonitorTermination ==
    /\ []C36_StopOnCancellation
    /\ [][C36_NoDispatchAfterReturn]_vars
    /\ \A m \in Monitors : (mCtx /\ InLoop(m)) ~> Returned(m)

\* Start has returned on Stop: a waiting step lost its wait to the
\* cancellation, the loop took the Stop and the channel is empty
C36_Witness ==
    \E m \in Monitors :
       /\ Returned(m) /\ mon[m].ch = <<>> /\ ~StepInFlight(m)
       /\ mCtx
       /\ mon[m].pendingTransaction # NoTransaction
       /\ mon[m].actionId = SetStatusActionId

\* a wait for signatures was ended by the cancellation
C36_WitnessStop == mRes.op = "ctx.Done" /\ mRes.step = "WaitForSignatures"

\* the least whole number of signers that is 67 percent of the peers or more
LeastShare(peerCount) ==
    CHOOSE n \in 0..peerCount :
        /\ n * 100 >= peerCount * MinSignaturePercent
        /\ \A k \in 0..peerCount : k * 100 >= peerCount * MinSignaturePercent => n <= k

\* a waitForSignatures step whose timer fired has counted the signers
SignersCounted == mRes.op = "SignersCount"

\* C37: when the timer of waitForSignatures fires, the monitor goes on to
\* Execute exactly when the signer count of the action on the executing bridge
\* is at least the 67 percent of the known peers, rounded up, and at least one;
\* in every other case it goes back to WaitForSignatures.  So a single signer
\* is enough for a relayer that knows of no peer, and no signer is never enough.
C37_SignatureThreshold ==
    SignersCounted =>
        /\ mRes.next \in {"Execute", "WaitForSignatures"}
        /\ mRes.next = "Execute" <=>
              (mRes.count >= LeastShare(mRes.peerCount) /\ mRes.count >= 1)
        /\ mRes.count = 0 => mRes.next = "WaitForSignatures"
        /\ (mRes.peerCount = 0 /\ mRes.count = 1) => mRes.next = "Execute"

\* two signers of two known peers: the monitor goes on to Execute
C37_Witness ==
    /\ SignersCounted
    /\ mRes.peerCount = 2 /\ mRes.count = 2 /\ mRes.next = "Execute"

\* one signer of two known peers is not enough
C37_WitnessBelow ==
    /\ SignersCounted
    /\ mRes.peerCount = 2 /\ mRes.count = 1 /\ mRes.next = "WaitForSignatures"

\* a relayer that knows of no peer executes on a single signature
C37_WitnessNoPeers ==
    /\ SignersCounted
    /\ mRes.peerCount = 0 /\ mRes.count = 1 /\ mRes.next = "Execute"

\* a relayer that knows of no peer does not execute without a signature
C37_WitnessNoSigners ==
    /\ SignersCounted
    /\ mRes.peerCount = 0 /\ mRes.count = 0 /\ mRes.next = "WaitForSignatures"

\* three signers where three peers are known, and two are not enough
C37_WitnessRoundedUp ==
    /\ SignersCounted
    /\ mRes.peerCount = 3 /\ mRes.count = 3 /\ mRes.next = "Execute"

\* the monitor has just called ProposeSetStatus on the source bridge
SetStatusProposedBy(m) == mRes.op = "ProposeSetStatus" /\ mRes.m = m

\* the relayer's own ProposeTransfer call failed for its pending transaction:
\* proposeTransfer keeps the error in the transaction
OwnProposeFailed(m) == mon[m].pendingTransaction.Error # NoErr

\* the relayer saw the transfer executed on the destination: it went through
\* waitForExecute with the destination as its executing bridge
SawExecutedOnDestination(m) ==
    mon[m].executingBridge = "destination" /\ mChain.destination.executed

\* the status the source bridge was given is the one of the transaction
StatusPassed(m) == mChain.source.status = mon[m].pendingTransaction.Status

C38_StatusAtCall ==
    \A m \in Monitors :
       SetStatusProposedBy(m) =>
          LET tx == mon[m].pendingTransaction
          IN /\ tx # NoTransaction
             /\ tx.Status \in {"Rejected", "Executed"}
             /\ StatusPassed(m)
             /\ tx.Status = "Rejected" <=> OwnProposeFailed(m)
             /\ tx.Status = "Executed" <=> SawExecutedOnDestination(m)

\* the status of a pending transaction changes in two places only: a failed
\* ProposeTransfer of the relayer makes it Rejected, and an execution seen by
\* waitForExecute makes it Executed
C38_StatusWrites ==
    \A m \in Monitors :
       LET tx == mon[m].pendingTransaction
           after == mon'[m].pendingTransaction
       IN (tx # NoTransaction /\ after # NoTransaction /\ after.Status # tx.Status) =>
             \/ /\ mon[m].step = "ProposeTransfer"
                /\ after.Status = "Rejected" /\ after.Error # NoErr
                /\ mon'[m].ch = <<"ProposeSetStatus">>
                /\ mRes'.op = "ProposeTransfer" /\ mRes'.m = m
             \/ /\ mon[m].step = "WaitForExecute"
                /\ after.Status = "Executed"
                /\ mChain[mon[m].executingBridge].executed

\* C38: whenever a monitor calls ProposeSetStatus on the source bridge, the
\* status of its pending transaction, which is the status it passes, is
\* Rejected or Executed and never the initial one; it is Rejected exactly when
\* the relayer's own ProposeTransfer call on the destination failed for the
\* transaction, and Executed exactly when the relayer saw the transfer executed
\* on the destination.
C38_StatusInvariant == []C38_StatusAtCall /\ [][C38_StatusWrites]_vars

\* the leader proposes Rejected after its own ProposeTransfer failed
C38_Witness ==
    \E m \in Monitors :
       /\ SetStatusProposedBy(m)
       /\ mon[m].pendingTransaction.Status = "Rejected"
       /\ OwnProposeFailed(m)
       /\ mChain.source.status = "Rejected"

\* the leader proposes Executed after the transfer was executed
C38_WitnessExecuted ==
    \E m \in Monitors :
       /\ SetStatusProposedBy(m)
       /\ mon[m].pendingTransaction.Status = "Executed"
       /\ SawExecutedOnDestination(m)
       /\ mChain.source.status = "Executed"

\* the step that ran called the Ethereum client with the executor's message
\* hash: IsQuorumReached(msgHash) or ExecuteTransfer(msgHash, batch, quorum)
UsedMessageHash ==
    /\ bRes.ran /\ Dst = "Ethereum"
    /\ \/ <<"Ethereum", "IsQuorumReached">> \in bRes.calls
       \/ <<"Ethereum", "PerformTransfer">> \in bRes.calls

\* the step that ran called SignTransferOnEthereum
SignedOnEthereum ==
    /\ bRes.ran /\ Dst = "Ethereum"
    /\ <<"Ethereum", "GenerateMessageHash">> \in bRes.calls

\* the hash ExecuteTransfer is given by an executor that holds what the step
\* that ran held
HashPassed ==
    PerformTransferOnEthereum([NewExecutor EXCEPT !.batch = bRes.stored,
                                                  !.msgHash = bRes.msgHash],
                              Answer(bEnv.quorum, NoErr), NoErr).val.msgHash

\* C39: whenever a step queries the quorum on Ethereum or executes the transfer
\* there, the message hash the executor passes is the hash of the batch it
\* holds, stored by a successful SignTransferOnEthereum for that batch, and
\* never the hash of a batch held before.  A SignTransferOnEthereum whose
\* GenerateMessageHash fails leaves the stored hash as it was and broadcasts
\* no signature; one that succeeds stores the hash of the held batch.
C39_HashMatchesBatch ==
    /\ UsedMessageHash =>
          /\ bRes.stored # NilBatch
          /\ bRes.msgHash = MessageHash(bRes.stored)
          /\ HashPassed = MessageHash(bRes.stored)
          /\ \A b \in PendingBatches \cup {NextBatch} :
                b # bRes.stored => bRes.msgHash # MessageHash(b)
    /\ SignedOnEthereum =>
          IF bRes.errs[2] # NoErr
          THEN /\ br.e.msgHash = bRes.msgHash
               /\ <<"Ethereum", "Sign">> \notin bRes.calls
               /\ (Me \in bChain.Ethereum[bRes.stored.ID].transfer.signers) <=> bRes.signed
          ELSE /\ br.e.msgHash = MessageHash(bRes.stored)
               /\ <<"Ethereum", "Sign">> \in bRes.calls

\* the transfer of the second batch is executed on Ethereum with its own
\* hash, the executor having held the hash of the first batch before
C39_Witness ==
    /\ UsedMessageHash
    /\ <<"Ethereum", "PerformTransfer">> \in bRes.calls
    /\ bRes.errs[2] = NoErr
    /\ bRes.stored = NextBatch
    /\ bRes.msgHash = MessageHash(NextBatch)
    /\ 1 \in bChain.settled

\* the hash generation fails while the executor holds the hash of an older
\* batch: the old hash stays and nothing is broadcast
C39_WitnessFailedHash ==
    /\ SignedOnEthereum
    /\ bRes.errs[2] # NoErr
    /\ bRes.msgHash # 0
    /\ bRes.msgHash # MessageHash(bRes.stored)
    /\ br.e.msgHash = bRes.msgHash

\* the quorum is queried with the hash of the batch that is held
C39_WitnessQuorum ==
    /\ UsedMessageHash
    /\ <<"Ethereum", "IsQuorumReached">> \in bRes.calls
    /\ bRes.msgHash = MessageHash(bRes.stored)

\* the executor operations that take the stored batch as their input
BatchOperations ==
    {"VerifyLastDepositNonceExecutedOnEthereumBatch",
     "GetAndStoreActionIDForProposeTransferOnElrond",
     "GetAndStoreActionIDForProposeSetStatusFromElrond",
     "WasTransferProposedOnElrond", "ProposeTransferOnElrond",
     "WasSetStatusProposedOnElrond", "ProposeSetStatusOnElrond",
     "PerformActionOnElrond", "GetBatchStatusesFromEthereum",
     "WasTransferPerformedOnEthereum", "SignTransferOnEthereum",
     "PerformTransferOnEthereum"}

\* one of them was called while no batch was stored
CalledOnNilBatch == exRes.op \in BatchOperations /\ exRes.before.batch = NilBatch

\* one of them was called while a batch was stored
CalledOnStoredBatch == exRes.op \in BatchOperations /\ exRes.before.batch # NilBatch

\* C40: while no batch is stored, each executor operation that takes the
\* stored batch as input (verify the deposit nonces, get and store the action
\* id of the transfer or of the set-status, was-proposed and propose for both,
\* perform action, get statuses, was-performed, sign and perform the transfer
\* on Ethereum) returns the nil-batch error, calls no chain client and leaves
\* every field of the executor as it was; with a batch stored each of them
\* calls its client and never returns the nil-batch error.
C40_NilBatchGuard ==
    /\ CalledOnNilBatch =>
          /\ exRes.res.err = ErrNilBatch
          /\ exRes.res.calls = <<>>
          /\ exRes.res.executor = exRes.before
          /\ ex = exRes.before
          /\ exRes.op \in {"GetAndStoreActionIDForProposeTransferOnElrond",
                           "GetAndStoreActionIDForProposeSetStatusFromElrond"} =>
                exRes.res.val = InvalidActionID
    /\ CalledOnStoredBatch =>
          /\ exRes.res.err # ErrNilBatch
          /\ exRes.res.calls # <<>>

\* the transfer is to be proposed on Elrond by an executor that holds an
\* action id and a hash but no batch
C40_Witness ==
    /\ CalledOnNilBatch
    /\ exRes.op = "ProposeTransferOnElrond"
    /\ exRes.before.actionID # InvalidActionID /\ exRes.before.msgHash # 0
    /\ exRes.res.err = ErrNilBatch

\* the action id is asked for without a batch: the invalid id is returned
\* and the stored one is kept
C40_WitnessActionID ==
    /\ CalledOnNilBatch
    /\ exRes.op = "GetAndStoreActionIDForProposeSetStatusFromElrond"
    /\ exRes.res.val = InvalidActionID
    /\ ex.actionID = 1

\* the transfer is to be performed on Ethereum without a batch: the quorum
\* size is not asked
C40_WitnessPerform ==
    /\ CalledOnNilBatch
    /\ exRes.op = "PerformTransferOnEthereum"
    /\ exRes.res.calls = <<>>

\* with a batch stored the client is called
C40_WitnessStored ==
    /\ CalledOnStoredBatch
    /\ exRes.op = "PerformTransferOnEthereum"
    /\ exRes.res.calls = <<"GetQuorumSize", "ExecuteTransfer">>
    /\ exRes.res.err = NoErr

====
